---- MODULE Spec2Model ----
(***************************************************************************)
(* State-machine model of the risk-gating engine of the repository         *)
(* (packages/risk-management): CircuitBreaker, KillSwitch, RiskGuard,      *)
(* RiskReport and the position-sizing strategies, and of AccessControl     *)
(* (packages/telegram-control).                                            *)
(*                                                                         *)
(* Conventions                                                             *)
(*   - Option<T> is a set with at most one element: None == {} and         *)
(*     Some(x) == {x}.                                                     *)
(*   - A String built by format! is the sequence of its fragments, numbers *)
(*     rendered by ToString; two messages are equal iff their fragments    *)
(*     are.                                                                *)
(*   - f64 amounts (pnl, balance) are integers drawn from small sets.      *)
(*   - Utc::now() is the variable now, a discrete clock that only moves    *)
(*     forward (Tick); an operation reads it once.  RiskCheck.timestamp,   *)
(*     which no operation reads back, is left out.                         *)
(*   - In position_sizing.rs an f64 is an exact fraction <<n, d>> in       *)
(*     lowest terms with d >= 0 (rounding and NaN are left out); <<1, 0>>  *)
(*     compares above every fraction and stands for f64::MAX.              *)
(*   - A call that may panic returns <<"panic">> or <<"f64", value>>.      *)
(***************************************************************************)
EXTENDS Integers, Sequences, FiniteSets, TLC

VARIABLES
    now,        \* Utc::now()
    cb,         \* the CircuitBreaker
    ks,         \* the KillSwitch
    guard,      \* Option<RiskGuard>
    report,     \* a RiskReport
    last_op,    \* name of the operation executed by the last step
    trades,     \* history variable: every pnl passed to record_trade, in order
    reset_idx,  \* history variable: Len(trades) at the last CircuitBreaker.reset()
    quiet_trip, \* history variable: tripped by the loss limit, nothing recorded or reset since
    kelly,      \* a KellySizing
    fixed,      \* a FixedFractionalSizing
    vol,        \* a VolatilityBasedSizing
    anti,       \* an AntiMartingaleSizing
    sizer,      \* a PositionSizer
    outcomes,   \* history variable: every is_win passed to record_result, in order
    auth,       \* the AccessControl
    allowed,    \* history variable: Option of the ids passed to the last with_whitelist
    args,       \* arguments of the last sizing, access-control or bot call
    ret,        \* value returned by the last sizing or access-control call,
                \* or the handler the bot invoked for the last update
    twin,       \* a second CircuitBreaker, fed the same operations as cb
    bot         \* the telegram Bot

sizing_vars == <<kelly, fixed, vol, anti, sizer, outcomes>>

auth_vars == <<auth, allowed>>

vars == <<now, cb, ks, guard, report, last_op, trades, reset_idx, quiet_trip,
          sizing_vars, auth_vars, args, ret, twin, bot>>

----------------------------------------------------------------------------
(* Bounds of the model *)

MaxTime == 2            \* the clock runs over 0..MaxTime
DayLen == 2             \* clock ticks per calendar day
MaxTrades == 3          \* record_trade calls explored by SpecCB
MaxLossesCfg == 2       \* max_consecutive_losses ranges over 0..MaxLossesCfg
MaxCooldownCfg == 1     \* cooldown_duration ranges over 0..MaxCooldownCfg
RingTrades == 102       \* record_trade calls explored by SpecRing
RingFree == 2           \* SpecRing: the first RingFree trades take any pnl of PnlValues
MaxErrors == 6          \* record_error calls in a row explored by SpecKS
MaxChecks == 2          \* custom checks registered on a RiskGuard
MaxReportChecks == 3    \* checks added to a RiskReport
MaxResults == 5         \* record_result calls explored by SpecAnti
MaxIds == 2             \* length of the Vec passed to with_whitelist and with_admins
MaxCallbacks == 2       \* callback handlers registered on a bot

PnlValues == {-1, 0, 1}

----------------------------------------------------------------------------
(* Option<T> *)

None == {}
Some(x) == {x}
is_some(o) == o # {}
is_none(o) == o = {}
unwrap(o) == CHOOSE x \in o : TRUE

----------------------------------------------------------------------------
(* types.rs *)

Normal == 0
Elevated == 1
High == 2
Critical == 3

RiskCheck_pass(message) ==
    [passed |-> TRUE, level |-> Normal, message |-> message]

RiskCheck_fail(level, message) ==
    [passed |-> FALSE, level |-> level, message |-> message]

RiskReport_new == [overall_level |-> Normal, checks |-> <<>>]

\* Mutant of RR_add_check: overall_level follows the last check added.
Mut_RR_add_check_last_level(r, name, check) ==
    [overall_level |-> check.level,
     checks |-> Append(r.checks, <<name, check>>)]

RR_add_check(r, name, check) ==
    [overall_level |-> IF check.level > r.overall_level THEN check.level
                                                        ELSE r.overall_level,
     checks |-> Append(r.checks, <<name, check>>)]

RR_all_passed(r) == \A i \in 1..Len(r.checks) : r.checks[i][2].passed

RR_failed_checks(r) == SelectSeq(r.checks, LAMBDA e : ~e[2].passed)

----------------------------------------------------------------------------
(* circuit_breaker.rs *)

HistoryCap == 100

date_naive(t) == t \div DayLen

CircuitBreakerConfig(max, cooldown) ==
    [max_consecutive_losses |-> max,
     max_daily_drawdown_pct |-> 5,
     cooldown_duration |-> cooldown,
     min_trades_for_evaluation |-> 5]

CircuitBreaker_with_config(config, t) ==
    [config |-> config,
     trade_history |-> <<>>,
     consecutive_losses |-> 0,
     daily_pnl |-> 0,
     last_reset |-> t,
     triggered_at |-> None]

TradeRecord(t, pnl) ==
    [timestamp |-> t, pnl |-> pnl, was_profitable |-> (pnl >= 0)]

\* Mutant of Trim: the eviction loop tolerates one record too many.
Mut_Trim_off_by_one(h) == IF Len(h) > HistoryCap + 1 THEN Tail(h) ELSE h

\* Mutant of Trim: the newest record is dropped instead of the oldest.
Mut_Trim_drops_newest(h) ==
    IF Len(h) > HistoryCap THEN SubSeq(h, 1, HistoryCap) ELSE h

RECURSIVE Trim(_)
Trim(h) == IF Len(h) > HistoryCap THEN Trim(Tail(h)) ELSE h

\* Mutant of CB_record_trade: a break-even trade (pnl = 0) counts as a loss.
Mut_record_trade_zero_is_loss(c, pnl, t) ==
    LET newday == date_naive(t) # date_naive(c.last_reset)
        base == IF newday THEN 0 ELSE c.daily_pnl
    IN  [c EXCEPT
            !.daily_pnl = base + pnl,
            !.last_reset = IF newday THEN t ELSE c.last_reset,
            !.consecutive_losses = IF pnl <= 0 THEN c.consecutive_losses + 1 ELSE 0,
            !.trade_history = Trim(Append(c.trade_history, TradeRecord(t, pnl)))]

\* Mutant of CB_record_trade: a non-losing trade also closes the breaker.
Mut_record_trade_win_clears_trip(c, pnl, t) ==
    LET newday == date_naive(t) # date_naive(c.last_reset)
        base == IF newday THEN 0 ELSE c.daily_pnl
    IN  [c EXCEPT
            !.daily_pnl = base + pnl,
            !.last_reset = IF newday THEN t ELSE c.last_reset,
            !.consecutive_losses = IF pnl < 0 THEN c.consecutive_losses + 1 ELSE 0,
            !.triggered_at = IF pnl < 0 THEN c.triggered_at ELSE None,
            !.trade_history = Trim(Append(c.trade_history, TradeRecord(t, pnl)))]

\* Mutant of CB_record_trade: the daily P&L is zeroed a full day after last_reset.
Mut_record_trade_rolling_day(c, pnl, t) ==
    LET newday == t - c.last_reset >= DayLen
        base == IF newday THEN 0 ELSE c.daily_pnl
    IN  [c EXCEPT
            !.daily_pnl = base + pnl,
            !.last_reset = IF newday THEN t ELSE c.last_reset,
            !.consecutive_losses = IF pnl < 0 THEN c.consecutive_losses + 1 ELSE 0,
            !.trade_history = Trim(Append(c.trade_history, TradeRecord(t, pnl)))]

CB_record_trade(c, pnl, t) ==
    LET newday == date_naive(t) # date_naive(c.last_reset)
        base == IF newday THEN 0 ELSE c.daily_pnl
    IN  [c EXCEPT
            !.daily_pnl = base + pnl,
            !.last_reset = IF newday THEN t ELSE c.last_reset,
            !.consecutive_losses = IF pnl < 0 THEN c.consecutive_losses + 1 ELSE 0,
            !.trade_history = Trim(Append(c.trade_history, TradeRecord(t, pnl)))]

\* Mutant of CB_check: the loss limit is compared with > instead of >=.
Mut_CB_check_strict(c, t) ==
    IF /\ is_some(c.triggered_at)
       /\ t - unwrap(c.triggered_at) < c.config.cooldown_duration
    THEN RiskCheck_fail(Critical,
            <<"Circuit breaker active. ",
              ToString(c.config.cooldown_duration - (t - unwrap(c.triggered_at))),
              "s remaining">>)
    ELSE IF c.consecutive_losses > c.config.max_consecutive_losses
    THEN RiskCheck_fail(Critical,
            <<"Max consecutive losses reached: ", ToString(c.consecutive_losses)>>)
    ELSE RiskCheck_pass(<<"Circuit breaker OK">>)

\* Mutant of CB_check: the daily drawdown limit is consulted once enough
\* trades are in the history.
Mut_CB_check_drawdown(c, t) ==
    IF /\ is_some(c.triggered_at)
       /\ t - unwrap(c.triggered_at) < c.config.cooldown_duration
    THEN RiskCheck_fail(Critical,
            <<"Circuit breaker active. ",
              ToString(c.config.cooldown_duration - (t - unwrap(c.triggered_at))),
              "s remaining">>)
    ELSE IF c.consecutive_losses >= c.config.max_consecutive_losses
    THEN RiskCheck_fail(Critical,
            <<"Max consecutive losses reached: ", ToString(c.consecutive_losses)>>)
    ELSE IF /\ Len(c.trade_history) >= c.config.min_trades_for_evaluation
            /\ 0 - c.daily_pnl >= c.config.max_daily_drawdown_pct
    THEN RiskCheck_fail(Critical, <<"Max daily drawdown reached">>)
    ELSE RiskCheck_pass(<<"Circuit breaker OK">>)

CB_check(c, t) ==
    IF /\ is_some(c.triggered_at)
       /\ t - unwrap(c.triggered_at) < c.config.cooldown_duration
    THEN RiskCheck_fail(Critical,
            <<"Circuit breaker active. ",
              ToString(c.config.cooldown_duration - (t - unwrap(c.triggered_at))),
              "s remaining">>)
    ELSE IF c.consecutive_losses >= c.config.max_consecutive_losses
    THEN RiskCheck_fail(Critical,
            <<"Max consecutive losses reached: ", ToString(c.consecutive_losses)>>)
    ELSE RiskCheck_pass(<<"Circuit breaker OK">>)

\* Mutant of CB_check_and_trigger: every failing check stamps again.
Mut_CB_check_and_trigger_restamps(c, t) ==
    IF ~CB_check(c, t).passed
    THEN [c EXCEPT !.triggered_at = Some(t)]
    ELSE c

CB_check_and_trigger(c, t) ==
    IF ~CB_check(c, t).passed /\ is_none(c.triggered_at)
    THEN [c EXCEPT !.triggered_at = Some(t)]
    ELSE c

\* Mutant of CB_trigger: a breaker that is already tripped keeps its stamp.
Mut_CB_trigger_keeps_first(c, t) ==
    IF is_some(c.triggered_at) THEN c ELSE [c EXCEPT !.triggered_at = Some(t)]

CB_trigger(c, t) == [c EXCEPT !.triggered_at = Some(t)]

\* the RiskCheck trigger(reason) returns
CB_trigger_result(reason) == RiskCheck_fail(Critical, reason)

\* Mutant of CB_reset: the daily P&L is zeroed too.
Mut_CB_reset_clears_daily(c) ==
    [c EXCEPT !.triggered_at = None, !.consecutive_losses = 0, !.daily_pnl = 0]

\* Mutant of CB_reset: the run of losses survives the reset.
Mut_CB_reset_keeps_losses(c) == [c EXCEPT !.triggered_at = None]

CB_reset(c) == [c EXCEPT !.triggered_at = None, !.consecutive_losses = 0]

\* Mutant of CB_status: is_open trusts the latched stamp.
Mut_CB_status_latched(c, t) ==
    [is_open |-> is_some(c.triggered_at),
     consecutive_losses |-> c.consecutive_losses,
     daily_pnl |-> c.daily_pnl,
     triggered_at |-> c.triggered_at]

CB_status(c, t) ==
    [is_open |-> is_some(c.triggered_at) /\ (CB_check(c, t).passed = FALSE),
     consecutive_losses |-> c.consecutive_losses,
     daily_pnl |-> c.daily_pnl,
     triggered_at |-> c.triggered_at]

----------------------------------------------------------------------------
(* kill_switch.rs: KillSwitch *)

KillSwitchConfig_default ==
    [balance_floor |-> 100,
     max_open_positions |-> 10,
     max_api_errors |-> 5,
     manual_override |-> TRUE]

KillSwitch_with_config(config) ==
    [config |-> config,
     current_balance |-> 0,
     open_positions |-> 0,
     consecutive_errors |-> 0,
     manually_triggered |-> FALSE,
     triggered_at |-> None,
     trigger_reason |-> None]

KillSwitch_new == KillSwitch_with_config(KillSwitchConfig_default)

\* Mutant of KS_update_state: a balance back above the floor releases the latch.
Mut_KS_update_state_unlatches(k, balance, open_positions) ==
    [k EXCEPT !.current_balance = balance,
              !.open_positions = open_positions,
              !.triggered_at = IF balance >= k.config.balance_floor
                               THEN None ELSE k.triggered_at]

KS_update_state(k, balance, open_positions) ==
    [k EXCEPT !.current_balance = balance, !.open_positions = open_positions]

KS_record_error(k) == [k EXCEPT !.consecutive_errors = k.consecutive_errors + 1]

KS_clear_errors(k) == [k EXCEPT !.consecutive_errors = 0]

\* Mutant of KS_check: the position limit is tested before the balance floor.
Mut_KS_check_positions_first(k) ==
    IF is_some(k.triggered_at)
    THEN RiskCheck_fail(Critical,
            <<"Kill switch already triggered: ">>
            \o (IF is_some(k.trigger_reason) THEN unwrap(k.trigger_reason)
                                             ELSE <<"Unknown">>))
    ELSE IF k.open_positions > k.config.max_open_positions
    THEN RiskCheck_fail(Critical,
            <<"Max positions exceeded: ", ToString(k.open_positions), " > ",
              ToString(k.config.max_open_positions)>>)
    ELSE IF k.current_balance < k.config.balance_floor
    THEN RiskCheck_fail(Critical,
            <<"Balance below floor: ", ToString(k.current_balance), " < ",
              ToString(k.config.balance_floor)>>)
    ELSE IF k.consecutive_errors >= k.config.max_api_errors
    THEN RiskCheck_fail(Critical,
            <<"Max API errors reached: ", ToString(k.consecutive_errors)>>)
    ELSE IF k.manually_triggered
    THEN RiskCheck_fail(Critical, <<"Manual kill switch triggered">>)
    ELSE RiskCheck_pass(<<"Kill switch OK">>)

\* Mutant of KS_check: each threshold comparison has its boundary flipped.
Mut_KS_check_boundaries_flipped(k) ==
    IF is_some(k.triggered_at)
    THEN RiskCheck_fail(Critical,
            <<"Kill switch already triggered: ">>
            \o (IF is_some(k.trigger_reason) THEN unwrap(k.trigger_reason)
                                             ELSE <<"Unknown">>))
    ELSE IF k.current_balance <= k.config.balance_floor
    THEN RiskCheck_fail(Critical,
            <<"Balance below floor: ", ToString(k.current_balance), " < ",
              ToString(k.config.balance_floor)>>)
    ELSE IF k.open_positions >= k.config.max_open_positions
    THEN RiskCheck_fail(Critical,
            <<"Max positions exceeded: ", ToString(k.open_positions), " > ",
              ToString(k.config.max_open_positions)>>)
    ELSE IF k.consecutive_errors > k.config.max_api_errors
    THEN RiskCheck_fail(Critical,
            <<"Max API errors reached: ", ToString(k.consecutive_errors)>>)
    ELSE IF k.manually_triggered
    THEN RiskCheck_fail(Critical, <<"Manual kill switch triggered">>)
    ELSE RiskCheck_pass(<<"Kill switch OK">>)

KS_check(k) ==
    IF is_some(k.triggered_at)
    THEN RiskCheck_fail(Critical,
            <<"Kill switch already triggered: ">>
            \o (IF is_some(k.trigger_reason) THEN unwrap(k.trigger_reason)
                                             ELSE <<"Unknown">>))
    ELSE IF k.current_balance < k.config.balance_floor
    THEN RiskCheck_fail(Critical,
            <<"Balance below floor: ", ToString(k.current_balance), " < ",
              ToString(k.config.balance_floor)>>)
    ELSE IF k.open_positions > k.config.max_open_positions
    THEN RiskCheck_fail(Critical,
            <<"Max positions exceeded: ", ToString(k.open_positions), " > ",
              ToString(k.config.max_open_positions)>>)
    ELSE IF k.consecutive_errors >= k.config.max_api_errors
    THEN RiskCheck_fail(Critical,
            <<"Max API errors reached: ", ToString(k.consecutive_errors)>>)
    ELSE IF k.manually_triggered
    THEN RiskCheck_fail(Critical, <<"Manual kill switch triggered">>)
    ELSE RiskCheck_pass(<<"Kill switch OK">>)

\* Mutant of KS_trigger: a switch already triggered keeps its first stamp and reason.
Mut_KS_trigger_keeps_first(k, reason, t) ==
    IF is_some(k.triggered_at) THEN k
    ELSE [k EXCEPT !.triggered_at = Some(t), !.trigger_reason = Some(reason)]

KS_trigger(k, reason, t) ==
    [k EXCEPT !.triggered_at = Some(t), !.trigger_reason = Some(reason)]

\* Mutant of KS_check_and_trigger: a failing check latches again while triggered.
Mut_KS_check_and_trigger_rewraps(k, t) ==
    IF ~KS_check(k).passed
    THEN KS_trigger(k, KS_check(k).message, t)
    ELSE k

KS_check_and_trigger(k, t) ==
    IF ~KS_check(k).passed /\ is_none(k.triggered_at)
    THEN KS_trigger(k, KS_check(k).message, t)
    ELSE k

\* Mutant of KS_manual_trigger: config.manual_override is not consulted.
Mut_KS_manual_trigger_always(k, reason, t) ==
    KS_trigger([k EXCEPT !.manually_triggered = TRUE], <<"Manual: ">> \o reason, t)

KS_manual_trigger(k, reason, t) ==
    IF k.config.manual_override
    THEN KS_trigger([k EXCEPT !.manually_triggered = TRUE], <<"Manual: ">> \o reason, t)
    ELSE k

\* Mutant of KS_reset: the error counter survives the reset.
Mut_KS_reset_keeps_errors(k) ==
    [k EXCEPT !.triggered_at = None,
              !.trigger_reason = None,
              !.manually_triggered = FALSE]

\* Mutant of KS_reset: the pushed open_positions are forgotten too.
Mut_KS_reset_clears_positions(k) ==
    [k EXCEPT !.triggered_at = None,
              !.trigger_reason = None,
              !.manually_triggered = FALSE,
              !.consecutive_errors = 0,
              !.open_positions = 0]

\* Mutant of KS_reset: the manual flag survives the reset.
Mut_KS_reset_keeps_manual(k) ==
    [k EXCEPT !.triggered_at = None,
              !.trigger_reason = None,
              !.consecutive_errors = 0]

KS_reset(k) ==
    [k EXCEPT !.triggered_at = None,
              !.trigger_reason = None,
              !.manually_triggered = FALSE,
              !.consecutive_errors = 0]

KS_is_triggered(k) == is_some(k.triggered_at)

----------------------------------------------------------------------------
(* kill_switch.rs: RiskGuard.  A registered check function is modelled by   *)
(* the RiskCheck it returns when called.                                    *)

RiskGuard_new(kill_switch) == [kill_switch |-> kill_switch, checks |-> <<>>]

RG_add_check(g, check) == [g EXCEPT !.checks = Append(g.checks, check)]

\* Mutant of RG_check_all: a failing kill switch ends the evaluation.
Mut_RG_check_all_short_circuit(g) ==
    IF ~KS_check(g.kill_switch).passed THEN <<KS_check(g.kill_switch)>>
    ELSE <<KS_check(g.kill_switch)>> \o g.checks

RG_check_all(g) == <<KS_check(g.kill_switch)>> \o g.checks

\* Mutant of RG_all_passed: only the registered checks are consulted.
Mut_RG_all_passed_custom_only(g) ==
    \A i \in 1..Len(g.checks) : g.checks[i].passed

RG_all_passed(g) ==
    \A i \in 1..Len(RG_check_all(g)) : RG_check_all(g)[i].passed

RG_first_failure(g) ==
    LET results == RG_check_all(g)
        failing == {i \in 1..Len(results) : ~results[i].passed}
    IN  IF failing = {} THEN None
        ELSE Some(results[CHOOSE i \in failing : \A j \in failing : i <= j])

----------------------------------------------------------------------------
(* Inputs *)

CBConfigs ==
    {CircuitBreakerConfig(m, d) : m \in 0..MaxLossesCfg, d \in 0..MaxCooldownCfg}

\* KillSwitch::new(), KillSwitch::new().balance_floor(50).max_positions(3),
\* and a with_config that also lowers max_api_errors and disables the override.
KSConfigs ==
    {KillSwitchConfig_default,
     [KillSwitchConfig_default EXCEPT !.balance_floor = 50, !.max_open_positions = 3],
     [balance_floor |-> 50, max_open_positions |-> 3, max_api_errors |-> 2,
      manual_override |-> FALSE]}

BalanceValues == {50, 100, 150}
PositionValues == {0, 3, 4, 11}
Reasons == {<<"Emergency stop">>, <<"Halt">>}

CustomChecks ==
    {RiskCheck_pass(<<"Custom OK">>), RiskCheck_fail(High, <<"Custom fail">>)}

\* names and results handed to RiskReport::add_check
ReportNames == {"Balance", "Drawdown"}

ReportChecks ==
    {RiskCheck_pass(<<"Sufficient">>)}
        \cup {RiskCheck_fail(level, <<"Exceeded">>) : level \in Normal..Critical}

\* pnl of the n-th trade of SpecRing once the free prefix is over
RingPnl(n) == (n % 3) - 1

----------------------------------------------------------------------------
(* f64 arithmetic on exact fractions *)

Abs(n) == IF n < 0 THEN -n ELSE n

RECURSIVE GCD(_, _)
GCD(a, b) == IF b = 0 THEN a ELSE GCD(b, a % b)

\* the fraction n/d in lowest terms
Rat(n, d) ==
    LET g == GCD(Abs(n), Abs(d))
        sgn == IF d < 0 THEN -1 ELSE 1
    IN  <<(sgn * n) \div g, (sgn * d) \div g>>

f64_MAX == <<1, 0>>

f64_add(x, y) == Rat(x[1] * y[2] + y[1] * x[2], x[2] * y[2])
f64_sub(x, y) == Rat(x[1] * y[2] - y[1] * x[2], x[2] * y[2])
f64_mul(x, y) == Rat(x[1] * y[1], x[2] * y[2])
f64_div(x, y) == Rat(x[1] * y[2], x[2] * y[1])
f64_lt(x, y) == x[1] * y[2] < y[1] * x[2]
f64_le(x, y) == x[1] * y[2] <= y[1] * x[2]
f64_abs(x) == <<Abs(x[1]), x[2]>>
f64_max(x, y) == IF f64_lt(x, y) THEN y ELSE x

\* f64::clamp asserts min <= max before it compares
f64_clamp_panics(min, max) == ~f64_le(min, max)

f64_clamp(x, min, max) ==
    LET low == IF f64_lt(x, min) THEN min ELSE x
    IN  IF f64_lt(max, low) THEN max ELSE low

RECURSIVE f64_powi(_, _)
f64_powi(x, n) == IF n = 0 THEN Rat(1, 1) ELSE f64_mul(x, f64_powi(x, n - 1))

----------------------------------------------------------------------------
(* position_sizing.rs: the strategies *)

KellySizing_new == [win_rate |-> Rat(1, 2), avg_win |-> Rat(1, 1), avg_loss |-> Rat(1, 1)]

Kelly_win_rate(k, rate) == [k EXCEPT !.win_rate = f64_clamp(rate, Rat(0, 1), Rat(1, 1))]

Kelly_avg_win(k, win) == [k EXCEPT !.avg_win = f64_max(win, Rat(1, 100))]

Kelly_avg_loss(k, loss) == [k EXCEPT !.avg_loss = f64_max(loss, Rat(1, 100))]

\* Mutant of Kelly_kelly_fraction: a negative f* is not floored to 0.
Mut_Kelly_fraction_no_floor(k) ==
    LET loss_rate == f64_sub(Rat(1, 1), k.win_rate)
        b == f64_div(k.avg_win, k.avg_loss)
    IN  f64_div(f64_sub(f64_mul(k.win_rate, b), loss_rate), b)

Kelly_kelly_fraction(k) ==
    LET loss_rate == f64_sub(Rat(1, 1), k.win_rate)
        b == f64_div(k.avg_win, k.avg_loss)
        f == f64_div(f64_sub(f64_mul(k.win_rate, b), loss_rate), b)
    IN  f64_max(f, Rat(0, 1))

Kelly_calculate_size(k, capital, half_kelly) ==
    LET kelly_f == Kelly_kelly_fraction(k)
        fraction == IF half_kelly THEN f64_mul(kelly_f, Rat(1, 2)) ELSE kelly_f
    IN  f64_mul(capital, fraction)

Kelly_calculate(k, capital) == Kelly_calculate_size(k, capital, FALSE)

\* Mutant of FixedFractionalSizing_new: the percentage is stored unclamped.
Mut_FixedFractional_new_unclamped(risk_per_trade_pct) ==
    [risk_per_trade_pct |-> risk_per_trade_pct]

FixedFractionalSizing_new(risk_per_trade_pct) ==
    [risk_per_trade_pct |-> f64_clamp(risk_per_trade_pct, Rat(0, 1), Rat(100, 1))]

FixedFractional_conservative == FixedFractionalSizing_new(Rat(1, 1))
FixedFractional_moderate == FixedFractionalSizing_new(Rat(2, 1))
FixedFractional_aggressive == FixedFractionalSizing_new(Rat(5, 1))

FixedFractional_calculate(s, capital) ==
    f64_mul(capital, f64_div(s.risk_per_trade_pct, Rat(100, 1)))

VolatilityBasedSizing_new(atr) ==
    [atr_period |-> 14, risk_per_trade_pct |-> Rat(2, 1),
     current_atr |-> f64_max(atr, Rat(1, 10000))]

Vol_with_risk_pct(v, pct) ==
    [v EXCEPT !.risk_per_trade_pct = f64_clamp(pct, Rat(1, 10), Rat(10, 1))]

Vol_update_atr(v, atr) == [v EXCEPT !.current_atr = f64_max(atr, Rat(1, 10000))]

\* Mutant of Vol_calculate_with_stop: the stop distance keeps its sign.
Mut_Vol_with_stop_signed(v, capital, entry_price, stop_price) ==
    LET risk_amount == f64_mul(capital, f64_div(v.risk_per_trade_pct, Rat(100, 1)))
        price_risk == f64_sub(entry_price, stop_price)
    IN  IF f64_le(price_risk, Rat(0, 1)) THEN Rat(0, 1)
        ELSE f64_div(risk_amount, price_risk)

Vol_calculate_with_stop(v, capital, entry_price, stop_price) ==
    LET risk_amount == f64_mul(capital, f64_div(v.risk_per_trade_pct, Rat(100, 1)))
        price_risk == f64_abs(f64_sub(entry_price, stop_price))
    IN  IF f64_le(price_risk, Rat(0, 1)) THEN Rat(0, 1)
        ELSE f64_div(risk_amount, price_risk)

Vol_calculate(v, capital) ==
    LET volatility_factor == f64_div(Rat(1, 1), f64_add(Rat(1, 1), v.current_atr))
    IN  f64_mul(f64_mul(capital, f64_div(v.risk_per_trade_pct, Rat(100, 1))),
                volatility_factor)

AntiMartingaleSizing_new(base_size) ==
    [base_size |-> base_size, consecutive_wins |-> 0, consecutive_losses |-> 0,
     win_multiplier |-> Rat(3, 2), loss_divisor |-> Rat(2, 1),
     max_multiplier |-> Rat(4, 1)]

\* Mutant of Anti_record_result: a loss leaves the winning streak in place.
Mut_Anti_record_result_keeps_wins(a, is_win) ==
    IF is_win
    THEN [a EXCEPT !.consecutive_wins = @ + 1, !.consecutive_losses = 0]
    ELSE [a EXCEPT !.consecutive_losses = @ + 1]

\* Mutant of Anti_record_result: a win leaves the losing streak standing.
Mut_Anti_record_result_keeps_losses(a, is_win) ==
    IF is_win
    THEN [a EXCEPT !.consecutive_wins = @ + 1]
    ELSE [a EXCEPT !.consecutive_losses = @ + 1, !.consecutive_wins = 0]

Anti_record_result(a, is_win) ==
    IF is_win
    THEN [a EXCEPT !.consecutive_wins = @ + 1, !.consecutive_losses = 0]
    ELSE [a EXCEPT !.consecutive_losses = @ + 1, !.consecutive_wins = 0]

\* Mutant of Anti_current_multiplier: the quotient is returned unclamped.
Mut_Anti_multiplier_unclamped(a) ==
    f64_div(f64_powi(a.win_multiplier, a.consecutive_wins),
            f64_powi(a.loss_divisor, a.consecutive_losses))

Anti_current_multiplier(a) ==
    LET multiplier == f64_div(f64_powi(a.win_multiplier, a.consecutive_wins),
                              f64_powi(a.loss_divisor, a.consecutive_losses))
    IN  f64_clamp(multiplier, Rat(1, 4), a.max_multiplier)

\* Mutant of Anti_calculate: the size is a share of capital.
Mut_Anti_calculate_uses_capital(a, capital) ==
    f64_mul(f64_div(capital, Rat(100, 1)), Anti_current_multiplier(a))

Anti_calculate(a, capital) == f64_mul(a.base_size, Anti_current_multiplier(a))

----------------------------------------------------------------------------
(* position_sizing.rs: PositionSizer; a Box<dyn SizingStrategy> is the pair *)
(* <<name(), strategy>>                                                     *)

Strategy_calculate(strategy, capital) ==
    CASE strategy[1] = "Kelly Criterion" -> Kelly_calculate(strategy[2], capital)
      [] strategy[1] = "Fixed Fractional" -> FixedFractional_calculate(strategy[2], capital)
      [] strategy[1] = "Volatility-Based" -> Vol_calculate(strategy[2], capital)
      [] strategy[1] = "Anti-Martingale" -> Anti_calculate(strategy[2], capital)

PositionSizer_new(strategy) ==
    [strategy |-> strategy, min_size |-> Rat(0, 1), max_size |-> f64_MAX]

PS_with_min_size(p, min) == [p EXCEPT !.min_size = min]

PS_with_max_size(p, max) == [p EXCEPT !.max_size = max]

\* Mutant of PS_calculate: only the upper bound is applied.
Mut_PS_calculate_max_only(p, capital) ==
    LET size == Strategy_calculate(p.strategy, capital)
    IN  IF f64_clamp_panics(p.min_size, p.max_size) THEN <<"panic">>
        ELSE <<"f64", IF f64_lt(p.max_size, size) THEN p.max_size ELSE size>>

PS_calculate(p, capital) ==
    LET size == Strategy_calculate(p.strategy, capital)
    IN  IF f64_clamp_panics(p.min_size, p.max_size) THEN <<"panic">>
        ELSE <<"f64", f64_clamp(size, p.min_size, p.max_size)>>

----------------------------------------------------------------------------
(* telegram-control auth.rs *)

\* the elements of a Vec
Elems(v) == {v[i] : i \in 1..Len(v)}

AccessControl_new == [whitelist |-> None, admins |-> {}]

AC_with_whitelist(a, ids) == [a EXCEPT !.whitelist = Some(Elems(ids))]

AC_with_admins(a, ids) == [a EXCEPT !.admins = Elems(ids)]

\* Mutant of AC_is_authorized: an admin is let in whatever the whitelist says.
Mut_AC_is_authorized_admins(a, user_id) ==
    IF is_some(a.whitelist) THEN user_id \in unwrap(a.whitelist) \/ user_id \in a.admins
    ELSE TRUE

AC_is_authorized(a, user_id) ==
    IF is_some(a.whitelist) THEN user_id \in unwrap(a.whitelist)
    ELSE TRUE

AC_is_admin(a, user_id) == user_id \in a.admins

AC_authorize(a, user_id) ==
    IF AC_is_authorized(a, user_id) THEN <<"Ok">>
    ELSE <<"Err", "Unauthorized", user_id>>

----------------------------------------------------------------------------
(* telegram-control bot.rs.  A handler is known by its name; a message text *)
(* is the sequence of its whitespace-separated words; callback data and     *)
(* patterns are sequences of characters.                                    *)

BotBuilder_new == [access_control |-> AccessControl_new]

BotBuilder_with_whitelist(b, ids) ==
    [b EXCEPT !.access_control = AC_with_whitelist(b.access_control, ids)]

BotBuilder_with_admins(b, ids) ==
    [b EXCEPT !.access_control = AC_with_admins(b.access_control, ids)]

\* command_handlers is the set of <<command, handler>> of the HashMap
BotBuilder_build(b) ==
    [access_control |-> b.access_control,
     command_handlers |-> {},
     callback_handlers |-> <<>>,
     default_handler |-> None]

Bot_on_command(b, command, handler) ==
    [b EXCEPT !.command_handlers =
        {e \in b.command_handlers : e[1] # command} \cup {<<command, handler>>}]

Bot_on_callback(b, pattern, handler) ==
    [b EXCEPT !.callback_handlers = Append(b.callback_handlers, <<pattern, handler>>)]

Bot_on_default(b, handler) == [b EXCEPT !.default_handler = Some(handler)]

starts_with(data, pattern) ==
    /\ Len(pattern) <= Len(data)
    /\ SubSeq(data, 1, Len(pattern)) = pattern

\* the message endpoint of run(): the handler invoked for a message, if any
Bot_message_endpoint(b, from, text) ==
    IF is_none(from) THEN <<"nothing">>
    ELSE IF AC_authorize(b.access_control, unwrap(from))[1] = "Err" THEN <<"refused">>
    ELSE LET matching ==
                 IF is_some(text) /\ unwrap(text) # <<>>
                 THEN {e \in b.command_handlers : e[1] = unwrap(text)[1]}
                 ELSE {}
         IN  IF matching # {} THEN <<"command", (CHOOSE e \in matching : TRUE)[2]>>
             ELSE IF is_some(b.default_handler)
                  THEN <<"default", unwrap(b.default_handler)>>
                  ELSE <<"nothing">>

\* the callback endpoint of run(): the first handler whose pattern starts the data
Bot_callback_endpoint(b, data, from) ==
    IF is_some(data) /\ is_some(from)
    THEN LET matching == {i \in 1..Len(b.callback_handlers) :
                             starts_with(unwrap(data), b.callback_handlers[i][1])}
         IN  IF matching = {} THEN <<"nothing">>
             ELSE <<"callback",
                    b.callback_handlers[CHOOSE i \in matching :
                                           \A j \in matching : i <= j][2]>>
    ELSE <<"nothing">>

----------------------------------------------------------------------------
(* Initial states: the objects right after construction *)

\* no sizing or access-control call has returned yet
NoRet == <<"none">>

InitSizing ==
    /\ kelly = KellySizing_new
    /\ fixed = FixedFractional_moderate
    /\ vol = VolatilityBasedSizing_new(Rat(1, 10))
    /\ anti = AntiMartingaleSizing_new(Rat(100, 1))
    /\ sizer = PositionSizer_new(<<"Fixed Fractional", FixedFractional_aggressive>>)
    /\ outcomes = <<>>

InitAuth ==
    /\ auth = AccessControl_new
    /\ allowed = None
    /\ bot = BotBuilder_build(BotBuilder_new)

InitCB(config) ==
    /\ cb = CircuitBreaker_with_config(config, now)
    /\ twin = CircuitBreaker_with_config(config, now)
    /\ trades = <<>>
    /\ reset_idx = 0
    /\ quiet_trip = FALSE

InitKS(config) ==
    /\ ks = KillSwitch_with_config(config)
    /\ guard = None
    /\ report = RiskReport_new

Init ==
    /\ now = 0
    /\ last_op = "new"
    /\ \E config \in CBConfigs : InitCB(config)
    /\ InitKS(KillSwitchConfig_default)
    /\ InitSizing
    /\ InitAuth
    /\ args = <<>>
    /\ ret = NoRet

InitKill ==
    /\ now = 0
    /\ last_op = "new"
    /\ InitCB(CircuitBreakerConfig(3, 2))
    /\ \E config \in KSConfigs : InitKS(config)
    /\ InitSizing
    /\ InitAuth
    /\ args = <<>>
    /\ ret = NoRet

----------------------------------------------------------------------------
(* The clock *)

Tick ==
    /\ now < MaxTime
    /\ now' = now + 1
    /\ last_op' = "tick"
    /\ UNCHANGED <<twin, bot, sizing_vars, auth_vars, args, ret, report, cb, ks, guard, trades, reset_idx, quiet_trip>>

----------------------------------------------------------------------------
(* CircuitBreaker operations *)

RecordTrade(pnl) ==
    /\ cb' = CB_record_trade(cb, pnl, now)
    /\ trades' = Append(trades, pnl)
    /\ quiet_trip' = FALSE
    /\ last_op' = "CircuitBreaker.record_trade"
    /\ UNCHANGED <<twin, bot, sizing_vars, auth_vars, args, ret, report, now, ks, guard, reset_idx>>

Check ==
    /\ last_op' = "CircuitBreaker.check"
    /\ UNCHANGED <<twin, bot, sizing_vars, auth_vars, args, ret, report, now, cb, ks, guard, trades, reset_idx, quiet_trip>>

CheckAndTrigger ==
    /\ cb' = CB_check_and_trigger(cb, now)
    /\ quiet_trip' = (quiet_trip \/ (is_none(cb.triggered_at) /\ is_some(cb'.triggered_at)))
    /\ last_op' = "CircuitBreaker.check_and_trigger"
    /\ UNCHANGED <<twin, bot, sizing_vars, auth_vars, args, ret, report, now, ks, guard, trades, reset_idx>>

Trigger ==
    /\ cb' = CB_trigger(cb, now)
    /\ quiet_trip' = FALSE
    /\ last_op' = "CircuitBreaker.trigger"
    /\ UNCHANGED <<twin, bot, sizing_vars, auth_vars, args, ret, report, now, ks, guard, trades, reset_idx>>

Reset ==
    /\ cb' = CB_reset(cb)
    /\ reset_idx' = Len(trades)
    /\ quiet_trip' = FALSE
    /\ last_op' = "CircuitBreaker.reset"
    /\ UNCHANGED <<twin, bot, sizing_vars, auth_vars, args, ret, report, now, ks, guard, trades>>

Status ==
    /\ last_op' = "CircuitBreaker.status"
    /\ UNCHANGED <<twin, bot, sizing_vars, auth_vars, args, ret, report, now, cb, ks, guard, trades, reset_idx, quiet_trip>>

NextCB ==
    \/ Tick
    \/ \E pnl \in PnlValues : Len(trades) < MaxTrades /\ RecordTrade(pnl)
    \/ Check
    \/ CheckAndTrigger
    \/ Trigger
    \/ Reset
    \/ Status

Spec == Init /\ [][NextCB]_vars

NextRing ==
    \E pnl \in PnlValues :
        /\ Len(trades) < RingTrades
        /\ Len(trades) >= RingFree => pnl = RingPnl(Len(trades))
        /\ RecordTrade(pnl)

\* A breaker constructed at any time of the first day, then trades, resets and
\* the passing of time.
InitDaily ==
    /\ now \in 0..(DayLen - 1)
    /\ last_op = "new"
    /\ \E config \in CBConfigs : InitCB(config)
    /\ InitKS(KillSwitchConfig_default)
    /\ InitSizing
    /\ InitAuth
    /\ args = <<>>
    /\ ret = NoRet

NextDaily ==
    \/ Tick
    \/ \E pnl \in PnlValues : Len(trades) < MaxTrades /\ RecordTrade(pnl)
    \/ Reset

SpecDaily == InitDaily /\ [][NextDaily]_vars

SpecRing == Init /\ [][NextRing]_vars

----------------------------------------------------------------------------
(* KillSwitch operations *)

UpdateState(balance, open_positions) ==
    /\ ks' = KS_update_state(ks, balance, open_positions)
    /\ last_op' = "KillSwitch.update_state"
    /\ UNCHANGED <<twin, bot, sizing_vars, auth_vars, args, ret, report, now, cb, guard, trades, reset_idx, quiet_trip>>

RecordError ==
    /\ ks.consecutive_errors < MaxErrors
    /\ ks' = KS_record_error(ks)
    /\ last_op' = "KillSwitch.record_error"
    /\ UNCHANGED <<twin, bot, sizing_vars, auth_vars, args, ret, report, now, cb, guard, trades, reset_idx, quiet_trip>>

ClearErrors ==
    /\ ks' = KS_clear_errors(ks)
    /\ last_op' = "KillSwitch.clear_errors"
    /\ UNCHANGED <<twin, bot, sizing_vars, auth_vars, args, ret, report, now, cb, guard, trades, reset_idx, quiet_trip>>

\* Mutant of KSCheck: a failing check() latches the switch.
Mut_KSCheck_latches ==
    /\ ks' = KS_check_and_trigger(ks, now)
    /\ last_op' = "KillSwitch.check"
    /\ UNCHANGED <<twin, bot, sizing_vars, auth_vars, args, ret, report, now, cb, guard, trades, reset_idx, quiet_trip>>

KSCheck ==
    /\ last_op' = "KillSwitch.check"
    /\ UNCHANGED <<twin, bot, sizing_vars, auth_vars, args, ret, report, now, cb, ks, guard, trades, reset_idx, quiet_trip>>

KSCheckAndTrigger ==
    /\ ks' = KS_check_and_trigger(ks, now)
    /\ last_op' = "KillSwitch.check_and_trigger"
    /\ UNCHANGED <<twin, bot, sizing_vars, auth_vars, args, ret, report, now, cb, guard, trades, reset_idx, quiet_trip>>

KSTrigger(reason) ==
    /\ ks' = KS_trigger(ks, reason, now)
    /\ last_op' = "KillSwitch.trigger"
    /\ UNCHANGED <<twin, bot, sizing_vars, auth_vars, args, ret, report, now, cb, guard, trades, reset_idx, quiet_trip>>

ManualTrigger(reason) ==
    /\ ks' = KS_manual_trigger(ks, reason, now)
    /\ last_op' = "KillSwitch.manual_trigger"
    /\ UNCHANGED <<twin, bot, sizing_vars, auth_vars, args, ret, report, now, cb, guard, trades, reset_idx, quiet_trip>>

KSReset ==
    /\ ks' = KS_reset(ks)
    /\ last_op' = "KillSwitch.reset"
    /\ UNCHANGED <<twin, bot, sizing_vars, auth_vars, args, ret, report, now, cb, guard, trades, reset_idx, quiet_trip>>

NextKS ==
    \/ Tick
    \/ \E b \in BalanceValues, p \in PositionValues : UpdateState(b, p)
    \/ RecordError
    \/ ClearErrors
    \/ KSCheck
    \/ KSCheckAndTrigger
    \/ \E r \in Reasons : KSTrigger(r)
    \/ \E r \in Reasons : ManualTrigger(r)
    \/ KSReset

SpecKS == InitKill /\ [][NextKS]_vars

----------------------------------------------------------------------------
(* Both guards side by side, as a caller holds them *)

InitChecks ==
    /\ now = 0
    /\ last_op = "new"
    /\ InitCB(CircuitBreakerConfig(1, 1))
    /\ \E config \in KSConfigs : InitKS(config)
    /\ InitSizing
    /\ InitAuth
    /\ args = <<>>
    /\ ret = NoRet

NextChecks ==
    \/ \E pnl \in {-1, 1} : Len(trades) < MaxTrades /\ RecordTrade(pnl)
    \/ Check
    \/ CheckAndTrigger
    \/ Trigger
    \/ Reset
    \/ \E b \in {50, 100}, p \in {0, 11} : UpdateState(b, p)
    \/ KSCheck
    \/ KSCheckAndTrigger
    \/ \E r \in Reasons : KSTrigger(r)
    \/ \E r \in Reasons : ManualTrigger(r)
    \/ KSReset

SpecChecks == InitChecks /\ [][NextChecks]_vars

----------------------------------------------------------------------------
(* RiskGuard operations *)

GuardNew ==
    /\ guard' = Some(RiskGuard_new(ks))
    /\ last_op' = "RiskGuard.new"
    /\ UNCHANGED <<twin, bot, sizing_vars, auth_vars, args, ret, report, now, cb, ks, trades, reset_idx, quiet_trip>>

AddCheck(check) ==
    /\ is_some(guard)
    /\ Len(unwrap(guard).checks) < MaxChecks
    /\ guard' = Some(RG_add_check(unwrap(guard), check))
    /\ last_op' = "RiskGuard.add_check"
    /\ UNCHANGED <<twin, bot, sizing_vars, auth_vars, args, ret, report, now, cb, ks, trades, reset_idx, quiet_trip>>

\* Mutant of CheckAll: the guard latches its kill switch when the check fails.
Mut_CheckAll_latches ==
    /\ is_some(guard)
    /\ guard' = Some([unwrap(guard) EXCEPT
                         !.kill_switch = KS_check_and_trigger(@, now)])
    /\ last_op' = "RiskGuard.check_all"
    /\ UNCHANGED <<twin, bot, sizing_vars, auth_vars, args, ret, report, now, cb, ks, trades, reset_idx, quiet_trip>>

CheckAll ==
    /\ is_some(guard)
    /\ last_op' = "RiskGuard.check_all"
    /\ UNCHANGED <<twin, bot, sizing_vars, auth_vars, args, ret, report, now, cb, ks, guard, trades, reset_idx, quiet_trip>>

AllPassed ==
    /\ is_some(guard)
    /\ last_op' = "RiskGuard.all_passed"
    /\ UNCHANGED <<twin, bot, sizing_vars, auth_vars, args, ret, report, now, cb, ks, guard, trades, reset_idx, quiet_trip>>

FirstFailure ==
    /\ is_some(guard)
    /\ last_op' = "RiskGuard.first_failure"
    /\ UNCHANGED <<twin, bot, sizing_vars, auth_vars, args, ret, report, now, cb, ks, guard, trades, reset_idx, quiet_trip>>

NextRG ==
    \/ \E b \in {50, 100}, p \in {0, 11} : UpdateState(b, p)
    \/ KSCheckAndTrigger
    \/ KSReset
    \/ GuardNew
    \/ \E c \in CustomChecks : AddCheck(c)
    \/ CheckAll
    \/ AllPassed
    \/ FirstFailure

SpecRG == InitKill /\ [][NextRG]_vars

----------------------------------------------------------------------------
(* RiskReport operations *)

InitReport ==
    /\ now = 0
    /\ last_op = "new"
    /\ InitCB(CircuitBreakerConfig(3, 2))
    /\ InitKS(KillSwitchConfig_default)
    /\ InitSizing
    /\ InitAuth
    /\ args = <<>>
    /\ ret = NoRet

ReportNew ==
    /\ report' = RiskReport_new
    /\ last_op' = "RiskReport.new"
    /\ UNCHANGED <<twin, bot, sizing_vars, auth_vars, args, ret, now, cb, ks, guard, trades, reset_idx, quiet_trip>>

ReportAddCheck(name, check) ==
    /\ Len(report.checks) < MaxReportChecks
    /\ report' = RR_add_check(report, name, check)
    /\ last_op' = "RiskReport.add_check"
    /\ UNCHANGED <<twin, bot, sizing_vars, auth_vars, args, ret, now, cb, ks, guard, trades, reset_idx, quiet_trip>>

NextReport ==
    \/ ReportNew
    \/ \E name \in ReportNames, check \in ReportChecks : ReportAddCheck(name, check)

SpecReport == InitReport /\ [][NextReport]_vars

----------------------------------------------------------------------------
(* Sizing and access control: the risk guards stay as constructed *)

risk_vars == <<now, cb, ks, guard, report, trades, reset_idx, quiet_trip, twin, bot>>

InitRisk ==
    /\ now = 0
    /\ last_op = "new"
    /\ InitCB(CircuitBreakerConfig(3, 2))
    /\ InitKS(KillSwitchConfig_default)

\* capital passed to calculate
Capitals == {Rat(1000, 1), Rat(10000, 1)}

----------------------------------------------------------------------------
(* PositionSizer operations *)

\* strategies handed to PositionSizer::new
Strategies ==
    {<<"Fixed Fractional", FixedFractional_aggressive>>,
     <<"Fixed Fractional", FixedFractional_moderate>>,
     <<"Kelly Criterion", KellySizing_new>>,
     <<"Volatility-Based", VolatilityBasedSizing_new(Rat(1, 10))>>,
     <<"Anti-Martingale", AntiMartingaleSizing_new(Rat(100, 1))>>}

\* bounds handed to with_min_size and with_max_size
SizeBounds == {Rat(0, 1), Rat(100, 1), Rat(300, 1)}

InitSizer ==
    /\ InitRisk
    /\ InitAuth
    /\ kelly = KellySizing_new
    /\ fixed = FixedFractional_moderate
    /\ vol = VolatilityBasedSizing_new(Rat(1, 10))
    /\ anti = AntiMartingaleSizing_new(Rat(100, 1))
    /\ outcomes = <<>>
    /\ \E strategy \in Strategies : sizer = PositionSizer_new(strategy)
    /\ args = <<>>
    /\ ret = NoRet

WithMinSize(min) ==
    /\ sizer' = PS_with_min_size(sizer, min)
    /\ args' = <<min>>
    /\ last_op' = "PositionSizer.with_min_size"
    /\ UNCHANGED <<risk_vars, kelly, fixed, vol, anti, outcomes, auth_vars, ret>>

WithMaxSize(max) ==
    /\ sizer' = PS_with_max_size(sizer, max)
    /\ args' = <<max>>
    /\ last_op' = "PositionSizer.with_max_size"
    /\ UNCHANGED <<risk_vars, kelly, fixed, vol, anti, outcomes, auth_vars, ret>>

SizerCalculate(capital) ==
    /\ ret' = PS_calculate(sizer, capital)
    /\ args' = <<capital>>
    /\ last_op' = "PositionSizer.calculate"
    /\ UNCHANGED <<risk_vars, sizing_vars, auth_vars>>

NextSizer ==
    \/ \E min \in SizeBounds : WithMinSize(min)
    \/ \E max \in SizeBounds : WithMaxSize(max)
    \/ \E capital \in Capitals : SizerCalculate(capital)

SpecSizer == InitSizer /\ [][NextSizer]_vars

----------------------------------------------------------------------------
(* KellySizing operations *)

\* arguments of win_rate, some outside [0, 1]
WinRates == {Rat(-1, 2), Rat(0, 1), Rat(1, 4), Rat(3, 5), Rat(1, 1), Rat(3, 2)}

\* arguments of avg_win and avg_loss, one below the floor 0.01
AvgValues == {Rat(0, 1), Rat(1, 1), Rat(50, 1), Rat(100, 1)}

InitOthers ==
    /\ InitRisk
    /\ InitSizing
    /\ InitAuth
    /\ args = <<>>
    /\ ret = NoRet

KellyWinRate(rate) ==
    /\ kelly' = Kelly_win_rate(kelly, rate)
    /\ args' = <<rate>>
    /\ last_op' = "KellySizing.win_rate"
    /\ UNCHANGED <<risk_vars, fixed, vol, anti, sizer, outcomes, auth_vars, ret>>

KellyAvgWin(win) ==
    /\ kelly' = Kelly_avg_win(kelly, win)
    /\ args' = <<win>>
    /\ last_op' = "KellySizing.avg_win"
    /\ UNCHANGED <<risk_vars, fixed, vol, anti, sizer, outcomes, auth_vars, ret>>

KellyAvgLoss(loss) ==
    /\ kelly' = Kelly_avg_loss(kelly, loss)
    /\ args' = <<loss>>
    /\ last_op' = "KellySizing.avg_loss"
    /\ UNCHANGED <<risk_vars, fixed, vol, anti, sizer, outcomes, auth_vars, ret>>

KellyFraction ==
    /\ ret' = <<"f64", Kelly_kelly_fraction(kelly)>>
    /\ args' = <<>>
    /\ last_op' = "KellySizing.kelly_fraction"
    /\ UNCHANGED <<risk_vars, sizing_vars, auth_vars>>

KellyCalculateSize(capital, half_kelly) ==
    /\ ret' = <<"f64", Kelly_calculate_size(kelly, capital, half_kelly)>>
    /\ args' = <<capital, half_kelly>>
    /\ last_op' = "KellySizing.calculate_size"
    /\ UNCHANGED <<risk_vars, sizing_vars, auth_vars>>

NextKelly ==
    \/ \E rate \in WinRates : KellyWinRate(rate)
    \/ \E win \in AvgValues : KellyAvgWin(win)
    \/ \E loss \in AvgValues : KellyAvgLoss(loss)
    \/ KellyFraction
    \/ \E capital \in Capitals, half_kelly \in BOOLEAN :
            KellyCalculateSize(capital, half_kelly)

SpecKelly == InitOthers /\ [][NextKelly]_vars

----------------------------------------------------------------------------
(* FixedFractionalSizing operations *)

\* arguments of FixedFractionalSizing::new, some outside [0, 100]
RiskPcts ==
    {Rat(-5, 1), Rat(0, 1), Rat(1, 2), Rat(2, 1), Rat(10, 1), Rat(100, 1), Rat(150, 1)}

FixedNew(risk_per_trade_pct) ==
    /\ fixed' = FixedFractionalSizing_new(risk_per_trade_pct)
    /\ args' = <<risk_per_trade_pct>>
    /\ last_op' = "FixedFractionalSizing.new"
    /\ UNCHANGED <<risk_vars, kelly, vol, anti, sizer, outcomes, auth_vars, ret>>

FixedPreset ==
    /\ \/ fixed' = FixedFractional_conservative /\ last_op' = "FixedFractionalSizing.conservative"
       \/ fixed' = FixedFractional_moderate /\ last_op' = "FixedFractionalSizing.moderate"
       \/ fixed' = FixedFractional_aggressive /\ last_op' = "FixedFractionalSizing.aggressive"
    /\ args' = <<>>
    /\ UNCHANGED <<risk_vars, kelly, vol, anti, sizer, outcomes, auth_vars, ret>>

FixedCalculate(capital) ==
    /\ ret' = <<"f64", FixedFractional_calculate(fixed, capital)>>
    /\ args' = <<capital>>
    /\ last_op' = "FixedFractionalSizing.calculate"
    /\ UNCHANGED <<risk_vars, sizing_vars, auth_vars>>

NextFixed ==
    \/ \E pct \in RiskPcts : FixedNew(pct)
    \/ FixedPreset
    \/ \E capital \in Capitals : FixedCalculate(capital)

SpecFixed == InitOthers /\ [][NextFixed]_vars

----------------------------------------------------------------------------
(* AntiMartingaleSizing operations *)

\* arguments of AntiMartingaleSizing::new
BaseSizes == {Rat(-100, 1), Rat(0, 1), Rat(100, 1)}

InitAnti ==
    /\ InitRisk
    /\ InitAuth
    /\ kelly = KellySizing_new
    /\ fixed = FixedFractional_moderate
    /\ vol = VolatilityBasedSizing_new(Rat(1, 10))
    /\ \E base_size \in BaseSizes : anti = AntiMartingaleSizing_new(base_size)
    /\ sizer = PositionSizer_new(<<"Fixed Fractional", FixedFractional_aggressive>>)
    /\ outcomes = <<>>
    /\ args = <<>>
    /\ ret = NoRet

RecordResult(is_win) ==
    /\ Len(outcomes) < MaxResults
    /\ anti' = Anti_record_result(anti, is_win)
    /\ outcomes' = Append(outcomes, is_win)
    /\ args' = <<is_win>>
    /\ last_op' = "AntiMartingaleSizing.record_result"
    /\ UNCHANGED <<risk_vars, kelly, fixed, vol, sizer, auth_vars, ret>>

AntiCalculate(capital) ==
    /\ ret' = <<"f64", Anti_calculate(anti, capital)>>
    /\ args' = <<capital>>
    /\ last_op' = "AntiMartingaleSizing.calculate"
    /\ UNCHANGED <<risk_vars, sizing_vars, auth_vars>>

NextAnti ==
    \/ \E is_win \in BOOLEAN : RecordResult(is_win)
    \/ \E capital \in Capitals : AntiCalculate(capital)

SpecAnti == InitAnti /\ [][NextAnti]_vars

----------------------------------------------------------------------------
(* VolatilityBasedSizing operations *)

\* arguments of with_risk_pct, some outside [0.1, 10]
VolPcts == {Rat(0, 1), Rat(2, 1), Rat(5, 1), Rat(50, 1)}

\* arguments of update_atr, one below the floor 0.0001
Atrs == {Rat(0, 1), Rat(1, 10), Rat(1, 1)}

\* entry and stop prices
Prices == {Rat(90, 1), Rat(100, 1), Rat(110, 1)}

VolWithRiskPct(pct) ==
    /\ vol' = Vol_with_risk_pct(vol, pct)
    /\ args' = <<pct>>
    /\ last_op' = "VolatilityBasedSizing.with_risk_pct"
    /\ UNCHANGED <<risk_vars, kelly, fixed, anti, sizer, outcomes, auth_vars, ret>>

VolUpdateAtr(atr) ==
    /\ vol' = Vol_update_atr(vol, atr)
    /\ args' = <<atr>>
    /\ last_op' = "VolatilityBasedSizing.update_atr"
    /\ UNCHANGED <<risk_vars, kelly, fixed, anti, sizer, outcomes, auth_vars, ret>>

VolCalculateWithStop(capital, entry_price, stop_price) ==
    /\ ret' = <<"f64", Vol_calculate_with_stop(vol, capital, entry_price, stop_price)>>
    /\ args' = <<capital, entry_price, stop_price>>
    /\ last_op' = "VolatilityBasedSizing.calculate_with_stop"
    /\ UNCHANGED <<risk_vars, sizing_vars, auth_vars>>

VolCalculate(capital) ==
    /\ ret' = <<"f64", Vol_calculate(vol, capital)>>
    /\ args' = <<capital>>
    /\ last_op' = "VolatilityBasedSizing.calculate"
    /\ UNCHANGED <<risk_vars, sizing_vars, auth_vars>>

NextVol ==
    \/ \E pct \in VolPcts : VolWithRiskPct(pct)
    \/ \E atr \in Atrs : VolUpdateAtr(atr)
    \/ \E capital \in Capitals, entry_price \in Prices, stop_price \in Prices :
            VolCalculateWithStop(capital, entry_price, stop_price)
    \/ \E capital \in Capitals : VolCalculate(capital)

SpecVol == InitOthers /\ [][NextVol]_vars

----------------------------------------------------------------------------
(* AccessControl operations *)

UserIds == {123, 456, 789}

\* the Vec<i64> arguments, duplicates included
IdVecs == UNION {[1..n -> UserIds] : n \in 0..MaxIds}

AuthWithWhitelist(ids) ==
    /\ auth' = AC_with_whitelist(auth, ids)
    /\ allowed' = Some(ids)
    /\ args' = <<ids>>
    /\ last_op' = "AccessControl.with_whitelist"
    /\ UNCHANGED <<risk_vars, sizing_vars, ret>>

AuthWithAdmins(ids) ==
    /\ auth' = AC_with_admins(auth, ids)
    /\ args' = <<ids>>
    /\ last_op' = "AccessControl.with_admins"
    /\ UNCHANGED <<risk_vars, sizing_vars, allowed, ret>>

IsAuthorized(user_id) ==
    /\ ret' = <<"bool", AC_is_authorized(auth, user_id)>>
    /\ args' = <<user_id>>
    /\ last_op' = "AccessControl.is_authorized"
    /\ UNCHANGED <<risk_vars, sizing_vars, auth_vars>>

IsAdmin(user_id) ==
    /\ ret' = <<"bool", AC_is_admin(auth, user_id)>>
    /\ args' = <<user_id>>
    /\ last_op' = "AccessControl.is_admin"
    /\ UNCHANGED <<risk_vars, sizing_vars, auth_vars>>

Authorize(user_id) ==
    /\ ret' = AC_authorize(auth, user_id)
    /\ args' = <<user_id>>
    /\ last_op' = "AccessControl.authorize"
    /\ UNCHANGED <<risk_vars, sizing_vars, auth_vars>>

NextAuth ==
    \/ \E ids \in IdVecs : AuthWithWhitelist(ids)
    \/ \E ids \in IdVecs : AuthWithAdmins(ids)
    \/ \E user_id \in UserIds : IsAuthorized(user_id)
    \/ \E user_id \in UserIds : IsAdmin(user_id)
    \/ \E user_id \in UserIds : Authorize(user_id)

SpecAuth == InitOthers /\ [][NextAuth]_vars

----------------------------------------------------------------------------
(* The bot: handlers are registered, then run() dispatches updates *)

\* handlers, known by name
Handlers == {"h1", "h2"}

Commands == {"/start"}

\* callback patterns and callback data, as sequences of characters
Patterns == {<<"b">>, <<"b", "u">>}
CallbackData == {None, Some(<<"b", "u", "y">>), Some(<<"b">>), Some(<<"s">>)}

\* sender of an update: absent, or a user
Senders == {None} \cup {Some(user_id) : user_id \in UserIds}

\* text of a message, as its whitespace-separated words: absent, blank, a
\* registered command with and without an argument, something else
Texts == {None, Some(<<>>), Some(<<"/start">>), Some(<<"/start", "now">>),
          Some(<<"hello">>)}

InitBot ==
    /\ InitRisk
    /\ InitSizing
    /\ auth = AccessControl_new
    /\ allowed = None
    /\ \/ bot = BotBuilder_build(BotBuilder_new)
       \/ \E ids \in IdVecs, admins \in {<<>>, <<123>>} :
              bot = BotBuilder_build(
                        BotBuilder_with_admins(
                            BotBuilder_with_whitelist(BotBuilder_new, ids), admins))
    /\ args = <<>>
    /\ ret = NoRet

bot_frame == <<now, cb, ks, guard, report, trades, reset_idx, quiet_trip, twin,
               sizing_vars, auth_vars>>

\* run() takes the bot by value: handlers are registered before the first update
OnCommand(command, handler) ==
    /\ ret = NoRet
    /\ bot' = Bot_on_command(bot, command, handler)
    /\ last_op' = "Bot.on_command"
    /\ UNCHANGED <<bot_frame, args, ret>>

OnCallback(pattern, handler) ==
    /\ ret = NoRet
    /\ Len(bot.callback_handlers) < MaxCallbacks
    /\ bot' = Bot_on_callback(bot, pattern, handler)
    /\ last_op' = "Bot.on_callback"
    /\ UNCHANGED <<bot_frame, args, ret>>

OnDefault(handler) ==
    /\ ret = NoRet
    /\ bot' = Bot_on_default(bot, handler)
    /\ last_op' = "Bot.on_default"
    /\ UNCHANGED <<bot_frame, args, ret>>

\* args is the kind of update, its sender and its text or data; ret is the
\* handler the endpoint invoked
MessageUpdate(from, text) ==
    /\ ret' = Bot_message_endpoint(bot, from, text)
    /\ args' = <<"message", from, text>>
    /\ last_op' = "Bot.run"
    /\ UNCHANGED <<bot_frame, bot>>

CallbackUpdate(data, from) ==
    /\ ret' = Bot_callback_endpoint(bot, data, from)
    /\ args' = <<"callback_query", from, data>>
    /\ last_op' = "Bot.run"
    /\ UNCHANGED <<bot_frame, bot>>

NextBot ==
    \/ \E command \in Commands, handler \in Handlers : OnCommand(command, handler)
    \/ \E pattern \in Patterns, handler \in Handlers : OnCallback(pattern, handler)
    \/ \E handler \in Handlers : OnDefault(handler)
    \/ \E from \in Senders, text \in Texts : MessageUpdate(from, text)
    \/ \E data \in CallbackData, from \in Senders : CallbackUpdate(data, from)

SpecBot == InitBot /\ [][NextBot]_vars

----------------------------------------------------------------------------
(* Two circuit breakers that differ in the fields check() does not read, *)
(* driven by the same operations at the same times                        *)

\* max_daily_drawdown_pct and min_trades_for_evaluation of the second breaker
TwinDrawdownPcts == {2, 5}
TwinMinTrades == {1, 5}

\* factor applied to the magnitude of a P&L before the second breaker records it
TwinScales == {1, 3}

InitTwin ==
    /\ now = 0
    /\ last_op = "new"
    /\ \E config \in {CircuitBreakerConfig(1, 1), CircuitBreakerConfig(2, 1)},
          pct \in TwinDrawdownPcts, mt \in TwinMinTrades :
            /\ cb = CircuitBreaker_with_config(config, now)
            /\ twin = CircuitBreaker_with_config(
                          [config EXCEPT !.max_daily_drawdown_pct = pct,
                                         !.min_trades_for_evaluation = mt], now)
    /\ trades = <<>>
    /\ reset_idx = 0
    /\ quiet_trip = FALSE
    /\ InitKS(KillSwitchConfig_default)
    /\ InitSizing
    /\ InitAuth
    /\ args = <<>>
    /\ ret = NoRet

twin_frame == <<ks, guard, report, trades, reset_idx, quiet_trip, bot,
                sizing_vars, auth_vars, args, ret>>

TwinRecordTrade(pnl, scale) ==
    /\ Len(cb.trade_history) < MaxTrades
    /\ cb' = CB_record_trade(cb, pnl, now)
    /\ twin' = CB_record_trade(twin, pnl * scale, now)
    /\ last_op' = "CircuitBreaker.record_trade"
    /\ UNCHANGED <<now, twin_frame>>

TwinCheck ==
    /\ last_op' = "CircuitBreaker.check"
    /\ UNCHANGED <<now, cb, twin, twin_frame>>

TwinCheckAndTrigger ==
    /\ cb' = CB_check_and_trigger(cb, now)
    /\ twin' = CB_check_and_trigger(twin, now)
    /\ last_op' = "CircuitBreaker.check_and_trigger"
    /\ UNCHANGED <<now, twin_frame>>

TwinTrigger ==
    /\ cb' = CB_trigger(cb, now)
    /\ twin' = CB_trigger(twin, now)
    /\ last_op' = "CircuitBreaker.trigger"
    /\ UNCHANGED <<now, twin_frame>>

TwinReset ==
    /\ cb' = CB_reset(cb)
    /\ twin' = CB_reset(twin)
    /\ last_op' = "CircuitBreaker.reset"
    /\ UNCHANGED <<now, twin_frame>>

NextTwin ==
    \/ Tick
    \/ \E pnl \in {-1, 1}, scale \in TwinScales : TwinRecordTrade(pnl, scale)
    \/ TwinCheck
    \/ TwinCheckAndTrigger
    \/ TwinTrigger
    \/ TwinReset

SpecTwin == InitTwin /\ [][NextTwin]_vars

----------------------------------------------------------------------------
(* Manual trips of a circuit breaker, with the check each call returns *)

\* cooldown_duration values long enough for a second trip within the cooldown
TripCooldowns == {1, 2}

InitTrip ==
    /\ now = 0
    /\ last_op = "new"
    /\ \E max \in 1..MaxLossesCfg, cooldown \in TripCooldowns :
            InitCB(CircuitBreakerConfig(max, cooldown))
    /\ InitKS(KillSwitchConfig_default)
    /\ InitSizing
    /\ InitAuth
    /\ args = <<>>
    /\ ret = NoRet

\* args is the breaker the call found and the reason handed in
TriggerWith(reason) ==
    /\ cb' = CB_trigger(cb, now)
    /\ quiet_trip' = FALSE
    /\ args' = <<cb, reason>>
    /\ ret' = <<"RiskCheck", CB_trigger_result(reason)>>
    /\ last_op' = "CircuitBreaker.trigger"
    /\ UNCHANGED <<now, ks, guard, report, trades, reset_idx, twin, bot,
                   sizing_vars, auth_vars>>

NextTrip ==
    \/ Tick
    \/ Len(trades) < MaxTrades /\ RecordTrade(-1)
    \/ CheckAndTrigger
    \/ \E reason \in Reasons : TriggerWith(reason)
    \/ Reset

SpecTrip == InitTrip /\ [][NextTrip]_vars

----------------------------------------------------------------------------
(* A kill switch of any configuration with_config accepts, reset at any time *)

\* the configurations of KSConfigs and one with max_api_errors = 0
KSResetConfigs ==
    KSConfigs \cup {[KillSwitchConfig_default EXCEPT !.max_api_errors = 0]}

InitKSReset ==
    /\ now = 0
    /\ last_op = "new"
    /\ InitCB(CircuitBreakerConfig(3, 2))
    /\ \E config \in KSResetConfigs : InitKS(config)
    /\ InitSizing
    /\ InitAuth
    /\ args = <<>>
    /\ ret = NoRet

NextKSReset ==
    \/ \E b \in BalanceValues, p \in PositionValues : UpdateState(b, p)
    \/ RecordError
    \/ KSCheckAndTrigger
    \/ \E r \in Reasons : ManualTrigger(r)
    \/ KSReset

SpecKSReset == InitKSReset /\ [][NextKSReset]_vars

----------------------------------------------------------------------------
(* Vocabulary of the properties *)

\* length of the trailing run of negative entries of a sequence of pnl
RECURSIVE TrailingLosses(_)
TrailingLosses(q) ==
    IF q = <<>> \/ q[Len(q)] >= 0 THEN 0
    ELSE 1 + TrailingLosses(SubSeq(q, 1, Len(q) - 1))

\* the trades recorded since construction or the last reset()
SinceReset == SubSeq(trades, reset_idx + 1, Len(trades))

CurrentRun == TrailingLosses(SinceReset)

\* the breaker has been tripped and its cooldown has not elapsed at time t
InCooldown(c, t) ==
    /\ is_some(c.triggered_at)
    /\ t - unwrap(c.triggered_at) < c.config.cooldown_duration

FailsCritical(check) == ~check.passed /\ check.level = Critical

----------------------------------------------------------------------------
(* C1: outside cooldown, check() passes exactly while the trailing run of    *)
(* losing trades is shorter than max_consecutive_losses and fails with level *)
(* Critical from the moment the run reaches it; after a non-negative trade   *)
(* the run is 0, so check() passes again (for a limit of at least 1).        *)
C1_LossThreshold ==
    ~InCooldown(cb, now) =>
        /\ CB_check(cb, now).passed <=> CurrentRun < cb.config.max_consecutive_losses
        /\ ~CB_check(cb, now).passed => FailsCritical(CB_check(cb, now))
        /\ ( /\ SinceReset # <<>>
             /\ trades[Len(trades)] >= 0
             /\ cb.config.max_consecutive_losses > 0 ) => CB_check(cb, now).passed

\* the run has just reached a limit of 2 and check() fails with Critical
C1_Witness ==
    /\ last_op = "CircuitBreaker.record_trade"
    /\ ~InCooldown(cb, now)
    /\ cb.config.max_consecutive_losses = 2
    /\ CurrentRun = 2
    /\ FailsCritical(CB_check(cb, now))

(* C2: consecutive_losses is the length of the trailing run of trades with   *)
(* pnl < 0 among the trades recorded since construction (or since the last   *)
(* reset()); a trade with pnl = 0 ends the run.                               *)
C2_ConsecutiveLosses == cb.consecutive_losses = CurrentRun

\* a loss, a break-even trade, a loss: the counter is 1, not 2 or 3
C2_Witness ==
    /\ reset_idx = 0
    /\ trades = <<-1, 0, -1>>
    /\ cb.consecutive_losses = 1

(* C3: once triggered_at is stamped, no operation but reset() clears it or   *)
(* moves it back, and every check() evaluated before cooldown_duration has   *)
(* elapsed since the stamp fails with level Critical, whatever was recorded  *)
(* in between.                                                                *)
C3_CooldownUnconditional ==
    [][ /\ (is_some(cb.triggered_at) /\ last_op' # "CircuitBreaker.reset") =>
                /\ is_some(cb'.triggered_at)
                /\ unwrap(cb'.triggered_at) >= unwrap(cb.triggered_at)
        /\ InCooldown(cb', now') => FailsCritical(CB_check(cb', now'))
      ]_vars

\* a non-losing trade recorded during cooldown: the counter is back to 0 and
\* check() still fails
C3_Witness ==
    /\ last_op = "CircuitBreaker.record_trade"
    /\ InCooldown(cb, now)
    /\ cb.consecutive_losses = 0
    /\ cb.config.max_consecutive_losses > 0
    /\ FailsCritical(CB_check(cb, now))

(* C4: a breaker tripped by reaching max_consecutive_losses (a limit of at   *)
(* least 1), with no reset() and no trade since, passes check() once         *)
(* cooldown_duration has elapsed since the stamp.                             *)
C4_AutoRecovery ==
    ( /\ quiet_trip
      /\ cb.config.max_consecutive_losses > 0
      /\ now - unwrap(cb.triggered_at) >= cb.config.cooldown_duration )
    => CB_check(cb, now).passed

(* C8: the trade history never holds more than 100 records.                  *)
C8_HistoryBounded == Len(cb.trade_history) <= 100

\* more than 100 trades were recorded and the history holds exactly 100
C8_Witness ==
    /\ Len(trades) > 100
    /\ Len(cb.trade_history) = 100

(* C9: check_and_trigger() stamps triggered_at = now exactly when check()    *)
(* failed and triggered_at was unset; a stamp already set is left as it is,  *)
(* and nothing else of the breaker changes.                                   *)
C9_TriggerIdempotent ==
    [][ last_op' = "CircuitBreaker.check_and_trigger" =>
            /\ is_some(cb.triggered_at) => cb'.triggered_at = cb.triggered_at
            /\ (is_none(cb.triggered_at) /\ ~CB_check(cb, now).passed)
                    => cb'.triggered_at = Some(now')
            /\ (is_none(cb.triggered_at) /\ CB_check(cb, now).passed)
                    => is_none(cb'.triggered_at)
            /\ [cb' EXCEPT !.triggered_at = None] = [cb EXCEPT !.triggered_at = None]
      ]_vars

\* a repeated check_and_trigger() at a later time, check() still failing: the
\* stamp is the earlier one
C9_Witness ==
    /\ last_op = "CircuitBreaker.check_and_trigger"
    /\ is_some(cb.triggered_at)
    /\ unwrap(cb.triggered_at) < now
    /\ ~CB_check(cb, now).passed

(* C10 as stated: status().is_open is true exactly when check() evaluated at *)
(* the same instant fails (shown for a limit of at least 1).                  *)
C10_IsOpenIffCheckFails ==
    cb.config.max_consecutive_losses > 0 =>
        (CB_status(cb, now).is_open <=> ~CB_check(cb, now).passed)

(* C10 amended: status().is_open is true exactly when triggered_at is set    *)
(* and the breaker still fails, i.e. it is in cooldown or its run of losses  *)
(* is at the limit; a failing breaker that was never triggered is not open.  *)
C10_IsOpenAmended ==
    CB_status(cb, now).is_open <=>
        /\ is_some(cb.triggered_at)
        /\ \/ InCooldown(cb, now)
           \/ CurrentRun >= cb.config.max_consecutive_losses

\* status() on a breaker at its loss limit that was never triggered
C10_Witness ==
    /\ last_op = "CircuitBreaker.status"
    /\ is_none(cb.triggered_at)
    /\ cb.config.max_consecutive_losses > 0
    /\ ~CB_check(cb, now).passed
    /\ ~CB_status(cb, now).is_open

----------------------------------------------------------------------------
(* C5: once the switch is triggered, update_state, record_error,             *)
(* clear_errors, check and check_and_trigger (and the passing of time) leave *)
(* it triggered with the same trigger_reason, and check() keeps failing with *)
(* the already-triggered message that carries that reason.                    *)
C5_LatchOps ==
    {"KillSwitch.update_state", "KillSwitch.record_error", "KillSwitch.clear_errors",
     "KillSwitch.check", "KillSwitch.check_and_trigger", "tick"}

C5_Latch ==
    [][ (KS_is_triggered(ks) /\ last_op' \in C5_LatchOps) =>
            /\ KS_is_triggered(ks')
            /\ ks'.triggered_at = ks.triggered_at
            /\ ks'.trigger_reason = ks.trigger_reason
            /\ FailsCritical(KS_check(ks'))
            /\ KS_check(ks').message =
                   <<"Kill switch already triggered: ">> \o unwrap(ks.trigger_reason)
      ]_vars

\* latched on the balance floor, then balance, positions and errors all pushed
\* back within limits: check() still reports the balance-floor reason
C5_Witness ==
    /\ last_op = "KillSwitch.update_state"
    /\ KS_is_triggered(ks)
    /\ ks.current_balance >= ks.config.balance_floor
    /\ ks.open_positions <= ks.config.max_open_positions
    /\ ks.consecutive_errors < ks.config.max_api_errors
    /\ ~ks.manually_triggered
    /\ unwrap(ks.trigger_reason)[1] = "Balance below floor: "
    /\ KS_check(ks).message[2] = "Balance below floor: "

(* C6: check() reports the first violated condition in the order latch,      *)
(* balance floor, position limit, API errors, manual flag, and passes only   *)
(* when none of the five holds.                                               *)
C6_Violated(k) ==
    <<is_some(k.triggered_at),
      k.current_balance < k.config.balance_floor,
      k.open_positions > k.config.max_open_positions,
      k.consecutive_errors >= k.config.max_api_errors,
      k.manually_triggered>>

C6_Text ==
    <<"Kill switch already triggered: ", "Balance below floor: ",
      "Max positions exceeded: ", "Max API errors reached: ",
      "Manual kill switch triggered">>

C6_PriorityOrder ==
    LET failing == {i \in 1..5 : C6_Violated(ks)[i]}
        first == CHOOSE i \in failing : \A j \in failing : i <= j
    IN  IF failing = {} THEN KS_check(ks).passed
        ELSE /\ ~KS_check(ks).passed
             /\ KS_check(ks).message[1] = C6_Text[first]

\* balance floor and position limit both violated: the balance floor is reported
C6_Witness ==
    /\ last_op = "KillSwitch.check"
    /\ is_none(ks.triggered_at)
    /\ ks.current_balance < ks.config.balance_floor
    /\ ks.open_positions > ks.config.max_open_positions
    /\ KS_check(ks).message[1] = "Balance below floor: "

(* C7: a KillSwitch fresh from KillSwitch::new() passes check(); a RiskGuard *)
(* over it reports all_passed() exactly when every registered check passes,  *)
(* and first_failure() is present when it does not.                           *)
C7_FreshDefaultPasses ==
    /\ ks = KillSwitch_new => KS_check(ks).passed
    /\ \A g \in guard :
          g.kill_switch = KillSwitch_new =>
              /\ RG_all_passed(g) <=> \A i \in 1..Len(g.checks) : g.checks[i].passed
              /\ ~RG_all_passed(g) => is_some(RG_first_failure(g))

----------------------------------------------------------------------------
(* C11: CircuitBreaker.reset() unsets triggered_at, zeroes consecutive_losses *)
(* and leaves daily_pnl, last_reset, the trade history and the configuration *)
(* as they were.                                                              *)
C11_ResetFrame ==
    [][ last_op' = "CircuitBreaker.reset" =>
            /\ is_none(cb'.triggered_at)
            /\ cb'.consecutive_losses = 0
            /\ cb'.daily_pnl = cb.daily_pnl
            /\ cb'.last_reset = cb.last_reset
            /\ cb'.trade_history = cb.trade_history
            /\ cb'.config = cb.config
      ]_vars

\* reset() right after a losing trade: counter and stamp cleared, the day's
\* P&L and the history still there
C11_Witness ==
    /\ last_op = "CircuitBreaker.reset"
    /\ trades # <<>>
    /\ reset_idx = Len(trades)
    /\ trades[Len(trades)] < 0
    /\ cb.consecutive_losses = 0
    /\ is_none(cb.triggered_at)
    /\ cb.daily_pnl < 0
    /\ Len(cb.trade_history) = Len(trades)

(* C12: KillSwitch.check_and_trigger() on an untriggered switch whose        *)
(* check() fails stamps triggered_at and sets trigger_reason to that check's *)
(* message, touching nothing else; when check() passes it changes nothing;   *)
(* when the switch is already triggered it changes nothing either.            *)
C12_CheckAndTrigger ==
    [][ last_op' = "KillSwitch.check_and_trigger" =>
            /\ (is_none(ks.triggered_at) /\ ~KS_check(ks).passed) =>
                    /\ ks'.triggered_at = Some(now')
                    /\ ks'.trigger_reason = Some(KS_check(ks).message)
                    /\ [ks' EXCEPT !.triggered_at = None, !.trigger_reason = None] = ks
            /\ KS_check(ks).passed => ks' = ks
            /\ is_some(ks.triggered_at) =>
                    /\ ks'.triggered_at = ks.triggered_at
                    /\ ks'.trigger_reason = ks.trigger_reason
      ]_vars

\* check_and_trigger() called again after the latch, at a later time: the
\* stamp is the earlier one and the reason is the bare failing message
C12_Witness ==
    /\ last_op = "KillSwitch.check_and_trigger"
    /\ is_some(ks.triggered_at)
    /\ unwrap(ks.triggered_at) < now
    /\ unwrap(ks.trigger_reason)[1] = "Max positions exceeded: "

(* C13: KillSwitch.manual_trigger(reason) changes nothing when               *)
(* config.manual_override is false; when it is true it sets                  *)
(* manually_triggered, makes is_triggered() true and sets trigger_reason to  *)
(* "Manual: " followed by the reason.                                         *)
C13_ManualTrigger ==
    [][ last_op' = "KillSwitch.manual_trigger" =>
            IF ~ks.config.manual_override THEN ks' = ks
            ELSE /\ ks'.manually_triggered
                 /\ KS_is_triggered(ks')
                 /\ \E r \in Reasons : ks'.trigger_reason = Some(<<"Manual: ">> \o r)
                 /\ ks'.triggered_at = Some(now')
                 /\ [ks' EXCEPT !.manually_triggered = FALSE,
                                !.triggered_at = None, !.trigger_reason = None]
                      = [ks EXCEPT !.manually_triggered = FALSE,
                                   !.triggered_at = None, !.trigger_reason = None]
      ]_vars

\* an effective manual trigger
C13_Witness ==
    /\ last_op = "KillSwitch.manual_trigger"
    /\ ks.config.manual_override
    /\ ks.manually_triggered
    /\ KS_is_triggered(ks)
    /\ ks.trigger_reason = Some(<<"Manual: ", "Emergency stop">>)

(* C14: KillSwitch.reset() clears triggered_at, trigger_reason,              *)
(* manually_triggered and consecutive_errors, so is_triggered() is false,    *)
(* and leaves current_balance, open_positions and the configuration as they  *)
(* were.                                                                      *)
C14_ResetFrame ==
    [][ last_op' = "KillSwitch.reset" =>
            /\ is_none(ks'.triggered_at)
            /\ is_none(ks'.trigger_reason)
            /\ ~ks'.manually_triggered
            /\ ks'.consecutive_errors = 0
            /\ ~KS_is_triggered(ks')
            /\ ks'.current_balance = ks.current_balance
            /\ ks'.open_positions = ks.open_positions
            /\ ks'.config = ks.config
      ]_vars

\* reset() on a switch whose pushed balance and positions violate the limits
C14_Witness ==
    /\ last_op = "KillSwitch.reset"
    /\ ks.current_balance = 50
    /\ ks.open_positions = 11
    /\ ~KS_is_triggered(ks)
    /\ ks.consecutive_errors = 0

(* C15 as stated: once triggered_at and trigger_reason are set, no operation *)
(* other than reset() changes either of them.                                 *)
C15_SetOnce ==
    [][ (is_some(ks.triggered_at) /\ last_op' # "KillSwitch.reset") =>
            /\ ks'.triggered_at = ks.triggered_at
            /\ ks'.trigger_reason = ks.trigger_reason
      ]_vars

(* C15 amended: once set, triggered_at and trigger_reason are changed only   *)
(* by reset(), trigger() and an effective manual_trigger(); trigger() and    *)
(* manual_trigger() (override enabled) overwrite both with the time and the  *)
(* reason of the latest call, also on a switch that is already triggered.    *)
C15_SetOnceAmended ==
    [][ /\ ( /\ is_some(ks.triggered_at)
             /\ last_op' \notin {"KillSwitch.reset", "KillSwitch.trigger",
                                 "KillSwitch.manual_trigger"} ) =>
                /\ ks'.triggered_at = ks.triggered_at
                /\ ks'.trigger_reason = ks.trigger_reason
        /\ last_op' = "KillSwitch.trigger" =>
                /\ ks'.triggered_at = Some(now')
                /\ ks'.trigger_reason \in {Some(r) : r \in Reasons}
        /\ (last_op' = "KillSwitch.manual_trigger" /\ ks.config.manual_override) =>
                /\ ks'.triggered_at = Some(now')
                /\ ks'.trigger_reason \in {Some(<<"Manual: ">> \o r) : r \in Reasons}
        /\ (last_op' = "KillSwitch.manual_trigger" /\ ~ks.config.manual_override) =>
                /\ ks'.triggered_at = ks.triggered_at
                /\ ks'.trigger_reason = ks.trigger_reason
      ]_vars

\* trigger() on a switch latched by manual_trigger(): the manual flag is still
\* set and the "Manual: ..." reason has been replaced by the bare one
C15_Witness ==
    /\ last_op = "KillSwitch.trigger"
    /\ ks.manually_triggered
    /\ ks.trigger_reason = Some(<<"Emergency stop">>)

----------------------------------------------------------------------------
(* C16: check_all() on a guard with n registered checks returns n+1 results: *)
(* the kill switch verdict first, then the result of every registered check  *)
(* in registration order (each add_check extends the sequence at its end),   *)
(* whether or not an earlier entry failed.                                    *)
C16_CheckAllComplete ==
    [][ \A g \in guard' :
            /\ Len(RG_check_all(g)) = Len(g.checks) + 1
            /\ RG_check_all(g)[1] = KS_check(g.kill_switch)
            /\ last_op' = "RiskGuard.new" => RG_check_all(g) = <<KS_check(ks)>>
            /\ last_op' = "RiskGuard.add_check" =>
                   \E c \in CustomChecks :
                       RG_check_all(g) = Append(RG_check_all(unwrap(guard)), c)
      ]_vars

\* kill switch failing, first custom check failing, second one still reported
C16_Witness ==
    /\ last_op = "RiskGuard.check_all"
    /\ \E g \in guard :
          /\ Len(g.checks) = 2
          /\ Len(RG_check_all(g)) = 3
          /\ ~RG_check_all(g)[1].passed
          /\ ~RG_check_all(g)[2].passed
          /\ RG_check_all(g)[3].passed

(* C17: first_failure() is the first entry of the check_all() sequence that  *)
(* did not pass, absent when there is none; all_passed() is the conjunction  *)
(* of passed over the sequence; so all_passed() holds exactly when           *)
(* first_failure() is absent.                                                 *)
RECURSIVE C17_FirstNonPassing(_)
C17_FirstNonPassing(results) ==
    IF results = <<>> THEN None
    ELSE IF ~Head(results).passed THEN Some(Head(results))
    ELSE C17_FirstNonPassing(Tail(results))

C17_FirstFailure ==
    \A g \in guard :
        LET results == <<KS_check(g.kill_switch)>> \o g.checks
        IN  /\ RG_first_failure(g) = C17_FirstNonPassing(results)
            /\ RG_all_passed(g) <=> \A i \in 1..Len(results) : results[i].passed
            /\ RG_all_passed(g) <=> is_none(RG_first_failure(g))

\* kill switch and first custom check pass, the second custom check fails and
\* is the first failure
C17_Witness ==
    /\ last_op = "RiskGuard.check_all"
    /\ \E g \in guard :
          /\ KS_check(g.kill_switch).passed
          /\ Len(g.checks) = 2
          /\ g.checks[1].passed
          /\ ~RG_all_passed(g)
          /\ RG_first_failure(g) = Some(RiskCheck_fail(High, <<"Custom fail">>))

----------------------------------------------------------------------------
(* C18: under a non-decreasing clock daily_pnl is the sum of the pnl of the  *)
(* trades recorded on the calendar date of the most recent trade (0 before   *)
(* the first trade): the first trade of a new date zeroes it, however little *)
(* time has passed, and a trade on the same date does not.  SpecDaily        *)
(* records at most MaxTrades trades, so trade_history holds all of them.     *)
RECURSIVE C18_SumOnDate(_, _)
C18_SumOnDate(h, d) ==
    IF h = <<>> THEN 0
    ELSE (IF date_naive(Head(h).timestamp) = d THEN Head(h).pnl ELSE 0)
         + C18_SumOnDate(Tail(h), d)

C18_DailyPnlByDate ==
    LET h == cb.trade_history
    IN  /\ Len(h) = Len(trades)
        /\ cb.daily_pnl =
              IF h = <<>> THEN 0
              ELSE C18_SumOnDate(h, date_naive(h[Len(h)].timestamp))

\* two trades one tick apart on different dates, then one more on the second
\* date: daily_pnl is the sum of the last two only
C18_Witness ==
    LET h == cb.trade_history
    IN  /\ Len(h) = 3
        /\ h[2].timestamp - h[1].timestamp < DayLen
        /\ date_naive(h[1].timestamp) # date_naive(h[2].timestamp)
        /\ date_naive(h[2].timestamp) = date_naive(h[3].timestamp)
        /\ h[1].pnl # 0
        /\ h[2].pnl # 0
        /\ cb.daily_pnl = h[2].pnl + h[3].pnl

----------------------------------------------------------------------------
(* C19: check() changes no field of either guard, so a failing check() never *)
(* stamps triggered_at; an unset triggered_at becomes set only by            *)
(* check_and_trigger and trigger (CircuitBreaker) or check_and_trigger,      *)
(* trigger and manual_trigger (KillSwitch).                                   *)
C19_CheckReadOnly ==
    [][ /\ last_op' = "CircuitBreaker.check" => cb' = cb
        /\ last_op' = "KillSwitch.check" => ks' = ks
        /\ (is_none(cb.triggered_at) /\ is_some(cb'.triggered_at)) =>
                last_op' \in {"CircuitBreaker.check_and_trigger", "CircuitBreaker.trigger"}
        /\ (is_none(ks.triggered_at) /\ is_some(ks'.triggered_at)) =>
                last_op' \in {"KillSwitch.check_and_trigger", "KillSwitch.trigger",
                              "KillSwitch.manual_trigger"}
      ]_vars

\* check() has just failed on the kill switch, which is still not triggered;
\* the breaker fails too and carries no stamp
C19_Witness ==
    /\ last_op = "KillSwitch.check"
    /\ ~KS_check(ks).passed
    /\ ~KS_is_triggered(ks)
    /\ ~CB_check(cb, now).passed
    /\ is_none(cb.triggered_at)

----------------------------------------------------------------------------
\* the highest level among the entries of a report's checks, Normal when empty
RECURSIVE C20_MaxLevel(_)
C20_MaxLevel(q) ==
    IF q = <<>> THEN Normal
    ELSE LET rest == C20_MaxLevel(Tail(q))
             lvl == Head(q)[2].level
         IN  IF lvl > rest THEN lvl ELSE rest

(* C20: RiskReport.overall_level equals the maximum level (Normal < Elevated *)
(* < High < Critical) over all checks added so far, Normal for an empty      *)
(* report, and never decreases as add_check is applied.                      *)
C20_OverallLevelIsMax ==
    [][ /\ last_op' = "RiskReport.new" =>
                report'.checks = <<>> /\ report'.overall_level = Normal
        /\ last_op' = "RiskReport.add_check" =>
                /\ Len(report'.checks) = Len(report.checks) + 1
                /\ report'.overall_level = C20_MaxLevel(report'.checks)
                /\ report'.overall_level >= report.overall_level
      ]_vars

\* a Critical failure was added first and a passing check last: the level
\* stays Critical
C20_Witness ==
    /\ last_op = "RiskReport.add_check"
    /\ Len(report.checks) >= 2
    /\ report.checks[1][2].level = Critical
    /\ report.checks[Len(report.checks)][2].passed
    /\ report.overall_level = Critical

----------------------------------------------------------------------------
(* C21: every RiskCheck built by the constructors is consistent:            *)
(* RiskCheck::pass yields passed with level Normal, and RiskCheck::fail     *)
(* yields not passed with a level of at least Elevated, for every level     *)
(* argument it accepts.  Stated over the checks a report has collected.     *)
C21_ConstructorsConsistent ==
    \A i \in 1..Len(report.checks) :
        LET check == report.checks[i][2]
        IN  /\ check.passed => check.level = Normal
            /\ ~check.passed => check.level >= Elevated

----------------------------------------------------------------------------
(* C22: PositionSizer.calculate(capital) with min_size <= max_size returns  *)
(* the strategy's raw output clamped to [min_size, max_size]: exactly       *)
(* max_size when the raw size is above it, exactly min_size when below it,  *)
(* and the raw size otherwise.                                              *)
C22_Clamp ==
    (last_op = "PositionSizer.calculate" /\ f64_le(sizer.min_size, sizer.max_size)) =>
        LET raw == Strategy_calculate(sizer.strategy, args[1])
        IN  /\ ret[1] = "f64"
            /\ f64_lt(sizer.max_size, raw) => ret[2] = sizer.max_size
            /\ f64_lt(raw, sizer.min_size) => ret[2] = sizer.min_size
            /\ (f64_le(sizer.min_size, raw) /\ f64_le(raw, sizer.max_size)) => ret[2] = raw

\* the 5% strategy on 1000 gives 50, below min_size 100 of the bounds [100, 300]
C22_Witness ==
    /\ last_op = "PositionSizer.calculate"
    /\ sizer.min_size = Rat(100, 1)
    /\ sizer.max_size = Rat(300, 1)
    /\ Strategy_calculate(sizer.strategy, args[1]) = Rat(50, 1)
    /\ ret = <<"f64", Rat(100, 1)>>

(* C23: sizing never fails on malformed configuration: for every pair of    *)
(* bounds supplied through with_min_size and with_max_size, including       *)
(* min_size > max_size, PositionSizer.calculate returns a size value        *)
(* instead of aborting.                                                     *)
C23_NeverAborts ==
    last_op = "PositionSizer.calculate" => ret[1] = "f64"

----------------------------------------------------------------------------
\* the Kelly fraction in closed form, p - (1 - p) * avg_loss / avg_win, not floored
C24_ClosedForm(k) ==
    f64_sub(k.win_rate,
            f64_div(f64_mul(f64_sub(Rat(1, 1), k.win_rate), k.avg_loss), k.avg_win))

(* C24: KellySizing.kelly_fraction() equals max(0, (p*b - (1-p)) / b) with  *)
(* b = avg_win/avg_loss, so it is never negative and never above 1 for any  *)
(* win rate in [0,1]; calculate_size(capital, true) is exactly half of      *)
(* calculate_size(capital, false).  For win_rate 0.6, avg_win 100, avg_loss *)
(* 50 the fraction is 0.4 and the half-Kelly size on 10000 is 2000.         *)
C24_KellyFraction ==
    /\ f64_le(Rat(0, 1), kelly.win_rate) /\ f64_le(kelly.win_rate, Rat(1, 1))
    /\ last_op = "KellySizing.kelly_fraction" =>
        /\ ret[2] = (IF f64_lt(C24_ClosedForm(kelly), Rat(0, 1)) THEN Rat(0, 1)
                     ELSE C24_ClosedForm(kelly))
        /\ f64_le(Rat(0, 1), ret[2])
        /\ f64_le(ret[2], Rat(1, 1))
        /\ (kelly.win_rate = Rat(3, 5) /\ kelly.avg_win = Rat(100, 1)
                /\ kelly.avg_loss = Rat(50, 1)) => ret[2] = Rat(2, 5)
    /\ last_op = "KellySizing.calculate_size" =>
        /\ args[2] => f64_mul(ret[2], Rat(2, 1)) = Kelly_calculate_size(kelly, args[1], FALSE)
        /\ ~args[2] => ret[2] = f64_mul(Kelly_calculate_size(kelly, args[1], TRUE), Rat(2, 1))
        /\ (kelly.win_rate = Rat(3, 5) /\ kelly.avg_win = Rat(100, 1)
                /\ kelly.avg_loss = Rat(50, 1) /\ args = <<Rat(10000, 1), TRUE>>)
              => ret[2] = Rat(2000, 1)

\* the half-Kelly size of the repository's test has just been computed
C24_Witness ==
    /\ last_op = "KellySizing.calculate_size"
    /\ kelly.win_rate = Rat(3, 5)
    /\ kelly.avg_win = Rat(100, 1)
    /\ kelly.avg_loss = Rat(50, 1)
    /\ args = <<Rat(10000, 1), TRUE>>
    /\ ret = <<"f64", Rat(2000, 1)>>

(* C25: FixedFractionalSizing.calculate(capital) equals capital * pct / 100 *)
(* with pct clamped to [0, 100] at construction; the moderate() preset (2%) *)
(* on capital 10000 yields 200.                                             *)
C25_FixedFractional ==
    /\ f64_le(Rat(0, 1), fixed.risk_per_trade_pct)
    /\ f64_le(fixed.risk_per_trade_pct, Rat(100, 1))
    /\ last_op = "FixedFractionalSizing.new" =>
          fixed.risk_per_trade_pct =
              (IF f64_lt(args[1], Rat(0, 1)) THEN Rat(0, 1)
               ELSE IF f64_lt(Rat(100, 1), args[1]) THEN Rat(100, 1)
               ELSE args[1])
    /\ last_op = "FixedFractionalSizing.moderate" => fixed.risk_per_trade_pct = Rat(2, 1)
    /\ last_op = "FixedFractionalSizing.calculate" =>
        /\ f64_mul(ret[2], Rat(100, 1)) = f64_mul(args[1], fixed.risk_per_trade_pct)
        /\ (fixed = FixedFractional_moderate /\ args = <<Rat(10000, 1)>>)
              => ret[2] = Rat(200, 1)

\* the moderate preset has just sized 10000
C25_Witness ==
    /\ last_op = "FixedFractionalSizing.calculate"
    /\ fixed.risk_per_trade_pct = Rat(2, 1)
    /\ args = <<Rat(10000, 1)>>
    /\ ret = <<"f64", Rat(200, 1)>>

----------------------------------------------------------------------------
\* length of the run of b that ends a sequence of results
RECURSIVE TrailingRun(_, _)
TrailingRun(q, b) ==
    IF q = <<>> \/ q[Len(q)] # b THEN 0
    ELSE 1 + TrailingRun(SubSeq(q, 1, Len(q) - 1), b)

RECURSIVE Pow(_, _)
Pow(b, n) == IF n = 0 THEN 1 ELSE b * Pow(b, n - 1)

\* 1.5^wins / 2^losses for the streak that ends the recorded results
C26_StreakQuotient ==
    LET wins == TrailingRun(outcomes, TRUE)
        losses == TrailingRun(outcomes, FALSE)
    IN  Rat(Pow(3, wins), Pow(2, wins) * Pow(2, losses))

(* C26: AntiMartingaleSizing size is base_size times winMult^wins /         *)
(* lossDiv^losses computed from the current streak only (the multiplier     *)
(* being held within [0.25, 4]): from a fresh state with base_size 100 two  *)
(* wins give 225, and one loss after any winning streak discards that       *)
(* streak entirely and gives base_size * 0.5 (50), not a partial reduction  *)
(* of the previous multiplier.                                              *)
C26_CurrentStreakOnly ==
    /\ anti.consecutive_wins = TrailingRun(outcomes, TRUE)
    /\ anti.consecutive_losses = TrailingRun(outcomes, FALSE)
    /\ last_op = "AntiMartingaleSizing.calculate" =>
        /\ (f64_le(Rat(1, 4), C26_StreakQuotient) /\ f64_le(C26_StreakQuotient, Rat(4, 1)))
              => ret[2] = f64_mul(anti.base_size, C26_StreakQuotient)
        /\ f64_lt(C26_StreakQuotient, Rat(1, 4))
              => ret[2] = f64_mul(anti.base_size, Rat(1, 4))
        /\ f64_lt(Rat(4, 1), C26_StreakQuotient)
              => ret[2] = f64_mul(anti.base_size, Rat(4, 1))
        /\ (outcomes = <<TRUE, TRUE>> /\ anti.base_size = Rat(100, 1))
              => ret[2] = Rat(225, 1)
        /\ (Len(outcomes) >= 2 /\ ~outcomes[Len(outcomes)] /\ outcomes[Len(outcomes) - 1])
              => ret[2] = f64_mul(anti.base_size, Rat(1, 2))

\* two wins, then one loss, with base_size 100: the size is 50
C26_Witness ==
    /\ last_op = "AntiMartingaleSizing.calculate"
    /\ outcomes = <<TRUE, TRUE, FALSE>>
    /\ anti.base_size = Rat(100, 1)
    /\ ret = <<"f64", Rat(50, 1)>>

(* C27: after any sequence of record_result calls the multiplier lies in    *)
(* [0.25, max_multiplier] (4.0 by default), so for base_size >= 0 the size  *)
(* returned by calculate is between 0.25 * base_size and 4 * base_size,     *)
(* however long the winning or losing streak.                               *)
C27_MultiplierBounded ==
    /\ anti.max_multiplier = Rat(4, 1)
    /\ f64_le(Rat(1, 4), Anti_current_multiplier(anti))
    /\ f64_le(Anti_current_multiplier(anti), anti.max_multiplier)
    /\ (last_op = "AntiMartingaleSizing.calculate" /\ f64_le(Rat(0, 1), anti.base_size)) =>
        /\ f64_le(f64_mul(Rat(1, 4), anti.base_size), ret[2])
        /\ f64_le(ret[2], f64_mul(Rat(4, 1), anti.base_size))

\* four wins in a row (1.5^4 > 4): the size is capped at 4 * base_size
C27_Witness ==
    /\ last_op = "AntiMartingaleSizing.calculate"
    /\ TrailingRun(outcomes, TRUE) >= 4
    /\ anti.base_size = Rat(100, 1)
    /\ ret = <<"f64", Rat(400, 1)>>

(* C28: AntiMartingaleSizing.calculate(capital) does not depend on capital: *)
(* in the same streak state, any two capital values yield the same size.    *)
C28_CapitalIgnored ==
    /\ \A c1, c2 \in Capitals : Anti_calculate(anti, c1) = Anti_calculate(anti, c2)
    /\ last_op = "AntiMartingaleSizing.calculate" =>
          \A capital \in Capitals : ret[2] = Anti_calculate(anti, capital)

\* a size computed for capital 1000 on a winning streak, and it is what
\* capital 10000 gives
C28_Witness ==
    /\ last_op = "AntiMartingaleSizing.calculate"
    /\ args = <<Rat(1000, 1)>>
    /\ anti.consecutive_wins = 1
    /\ anti.base_size = Rat(100, 1)
    /\ ret = <<"f64", Anti_calculate(anti, Rat(10000, 1))>>

----------------------------------------------------------------------------
\* |entry - stop|, by cases
C29_Distance(entry_price, stop_price) ==
    IF f64_lt(entry_price, stop_price) THEN f64_sub(stop_price, entry_price)
    ELSE f64_sub(entry_price, stop_price)

(* C29: VolatilityBasedSizing.calculate_with_stop(capital, entry, stop)     *)
(* returns 0 when entry equals stop and otherwise returns                   *)
(* (capital * risk_pct / 100) / |entry - stop|, the same value whether the  *)
(* stop is above or below the entry.                                        *)
C29_CalculateWithStop ==
    last_op = "VolatilityBasedSizing.calculate_with_stop" =>
        LET capital == args[1]
            entry_price == args[2]
            stop_price == args[3]
        IN  /\ entry_price = stop_price => ret[2] = Rat(0, 1)
            /\ entry_price # stop_price =>
                  f64_mul(f64_mul(ret[2], C29_Distance(entry_price, stop_price)), Rat(100, 1))
                      = f64_mul(capital, vol.risk_per_trade_pct)
            /\ ret[2] = Vol_calculate_with_stop(vol, capital, stop_price, entry_price)

\* a stop above the entry: 2% of 10000 over a distance of 10 is 20
C29_Witness ==
    /\ last_op = "VolatilityBasedSizing.calculate_with_stop"
    /\ vol.risk_per_trade_pct = Rat(2, 1)
    /\ args = <<Rat(10000, 1), Rat(100, 1), Rat(110, 1)>>
    /\ ret = <<"f64", Rat(20, 1)>>

----------------------------------------------------------------------------
\* no whitelist was configured, or the id is among those last configured
C30_Listed(user_id) ==
    IF is_none(allowed) THEN TRUE
    ELSE \E i \in 1..Len(unwrap(allowed)) : unwrap(allowed)[i] = user_id

(* C30: AccessControl: when a whitelist is configured, is_authorized(id) is *)
(* true exactly for ids in the whitelist and authorize(id) returns the      *)
(* Unauthorized error for every other id; when no whitelist is configured   *)
(* every id is authorized; admin membership does not affect authorization.  *)
C30_WhitelistOnly ==
    /\ \A user_id \in UserIds : AC_is_authorized(auth, user_id) <=> C30_Listed(user_id)
    /\ last_op = "AccessControl.is_authorized" =>
          /\ ret[1] = "bool"
          /\ ret[2] <=> C30_Listed(args[1])
    /\ last_op = "AccessControl.authorize" =>
          IF C30_Listed(args[1]) THEN ret = <<"Ok">>
          ELSE ret = <<"Err", "Unauthorized", args[1]>>

\* an admin who is not on the configured whitelist has just been refused
C30_Witness ==
    /\ last_op = "AccessControl.authorize"
    /\ is_some(allowed)
    /\ args = <<789>>
    /\ AC_is_admin(auth, 789)
    /\ AC_is_authorized(auth, 123)
    /\ ret = <<"Err", "Unauthorized", 789>>

----------------------------------------------------------------------------
\* the last min(n, 100) of the n pnl recorded so far
C31_LastRecorded ==
    LET n == Len(trades)
        kept == IF n < 100 THEN n ELSE 100
    IN  SubSeq(trades, n - kept + 1, n)

(* C31: after n record_trade calls the history is exactly the last           *)
(* min(n, 100) recorded trades in recording order: eviction removes the      *)
(* oldest record first and never a newer one.                                *)
C31_OldestEvictedFirst ==
    /\ Len(cb.trade_history) = Len(C31_LastRecorded)
    /\ \A i \in 1..Len(cb.trade_history) :
          /\ cb.trade_history[i].pnl = C31_LastRecorded[i]
          /\ cb.trade_history[i].was_profitable = (C31_LastRecorded[i] >= 0)

\* 102 trades recorded: the history starts at the third and ends at the last
C31_Witness ==
    /\ last_op = "CircuitBreaker.record_trade"
    /\ Len(trades) = 102
    /\ Len(cb.trade_history) = 100
    /\ cb.trade_history[1].pnl = trades[3]
    /\ cb.trade_history[100].pnl = trades[102]
    /\ trades[1] # trades[3]

\* C32: two circuit breakers that differ only in max_daily_drawdown_pct,
\* min_trades_for_evaluation and the magnitudes of the recorded P&L, and that
\* receive the same operations at the same times, get the same passed and
\* level from check() at every moment.
C32_VerdictIndependent ==
    /\ CB_check(cb, now).passed = CB_check(twin, now).passed
    /\ CB_check(cb, now).level = CB_check(twin, now).level

C32_Witness ==
    /\ last_op = "CircuitBreaker.check"
    /\ cb.config.max_daily_drawdown_pct # twin.config.max_daily_drawdown_pct
    /\ cb.config.min_trades_for_evaluation # twin.config.min_trades_for_evaluation
    /\ Len(twin.trade_history) >= twin.config.min_trades_for_evaluation
    /\ cb.daily_pnl > 0 - twin.config.max_daily_drawdown_pct
    /\ twin.daily_pnl <= 0 - twin.config.max_daily_drawdown_pct
    /\ is_none(cb.triggered_at)
    /\ CB_check(cb, now).passed
    /\ CB_check(twin, now).passed

\* C33: on an untriggered KillSwitch a balance exactly at balance_floor and an
\* open_positions exactly at max_open_positions do not fail check() (it passes
\* when the errors are below their limit), and consecutive_errors exactly at
\* max_api_errors fails it with "Max API errors reached".
C33_Boundaries ==
    is_none(ks.triggered_at) =>
        /\ ks.current_balance = ks.config.balance_floor =>
               KS_check(ks).message[1] # "Balance below floor: "
        /\ ks.open_positions = ks.config.max_open_positions =>
               KS_check(ks).message[1] # "Max positions exceeded: "
        /\ ( /\ ks.current_balance = ks.config.balance_floor
             /\ ks.open_positions = ks.config.max_open_positions
             /\ ks.consecutive_errors < ks.config.max_api_errors
             /\ ~ks.manually_triggered ) =>
               KS_check(ks) = RiskCheck_pass(<<"Kill switch OK">>)
        /\ ( /\ ks.current_balance >= ks.config.balance_floor
             /\ ks.open_positions <= ks.config.max_open_positions
             /\ ks.consecutive_errors = ks.config.max_api_errors ) =>
               /\ ~KS_check(ks).passed
               /\ KS_check(ks).level = Critical
               /\ KS_check(ks).message[1] = "Max API errors reached: "

C33_Witness ==
    /\ last_op = "KillSwitch.check"
    /\ is_none(ks.triggered_at)
    /\ ks.current_balance = ks.config.balance_floor
    /\ ks.open_positions = ks.config.max_open_positions
    /\ ks.consecutive_errors = ks.config.max_api_errors
    /\ KS_check(ks).message =
           <<"Max API errors reached: ", ToString(ks.config.max_api_errors)>>

C33_WitnessPass ==
    /\ last_op = "KillSwitch.check"
    /\ is_none(ks.triggered_at)
    /\ ks.current_balance = ks.config.balance_floor
    /\ ks.open_positions = ks.config.max_open_positions
    /\ ks.consecutive_errors = ks.config.max_api_errors - 1
    /\ KS_check(ks).passed

\* C34 as stated: for every configuration and every prior sequence of trades
\* and trips, check() evaluated right after reset() passes.
C34_ResetAlwaysPasses ==
    last_op = "CircuitBreaker.reset" => CB_check(cb, now).passed

\* C34 amended: for every configuration with max_consecutive_losses >= 1 and
\* every prior sequence of trades and trips, check() evaluated right after
\* reset() passes; with max_consecutive_losses = 0 it fails on the loss limit
\* (0 >= 0), so reset() is no exit point for that configuration.
C34_ResetPassesAmended ==
    last_op = "CircuitBreaker.reset" =>
        IF cb.config.max_consecutive_losses >= 1
        THEN CB_check(cb, now) = RiskCheck_pass(<<"Circuit breaker OK">>)
        ELSE CB_check(cb, now) =
                 RiskCheck_fail(Critical, <<"Max consecutive losses reached: ", "0">>)

\* reset() on a breaker whose last two trades were losses against a limit of
\* 2: check() passes again
C34_Witness ==
    /\ last_op = "CircuitBreaker.reset"
    /\ cb.config.max_consecutive_losses = 2
    /\ cb.config.cooldown_duration = 1
    /\ Len(trades) >= 2
    /\ reset_idx = Len(trades)
    /\ trades[Len(trades)] < 0
    /\ trades[Len(trades) - 1] < 0
    /\ CB_check(cb, now).passed

\* C35: in every reachable state of AntiMartingaleSizing at most one of
\* consecutive_wins and consecutive_losses is non-zero, and the non-zero one
\* is the length of the trailing run of identical results handed to
\* record_result (both are 0 before the first result).
C35_OneStreak ==
    /\ anti.consecutive_wins = 0 \/ anti.consecutive_losses = 0
    /\ IF outcomes = <<>>
       THEN anti.consecutive_wins = 0 /\ anti.consecutive_losses = 0
       ELSE LET last == outcomes[Len(outcomes)]
                run == TrailingRun(outcomes, last)
            IN  /\ run >= 1
                /\ last => (anti.consecutive_wins = run /\ anti.consecutive_losses = 0)
                /\ ~last => (anti.consecutive_losses = run /\ anti.consecutive_wins = 0)

\* two losses, then three wins: the counters read 3 wins, 0 losses
C35_Witness ==
    /\ last_op = "AntiMartingaleSizing.record_result"
    /\ outcomes = <<FALSE, FALSE, TRUE, TRUE, TRUE>>
    /\ anti.consecutive_wins = 3
    /\ anti.consecutive_losses = 0

\* C36: CircuitBreaker.trigger(reason) stamps triggered_at with the time of
\* the call and changes nothing else, and returns a failing Critical check
\* carrying the reason, also when the breaker is already tripped; so the
\* cooldown runs in full again from the latest call.
C36_TriggerRestamps ==
    [][ last_op' = "CircuitBreaker.trigger" =>
            /\ cb'.triggered_at = Some(now')
            /\ cb' = [cb EXCEPT !.triggered_at = Some(now')]
            /\ ret' = <<"RiskCheck",
                        [passed |-> FALSE, level |-> Critical, message |-> args'[2]]>>
            /\ CB_check(cb', now') =
                   RiskCheck_fail(Critical,
                       <<"Circuit breaker active. ",
                         ToString(cb.config.cooldown_duration), "s remaining">>)
      ]_vars

\* a second trigger one second into a cooldown of two: the stamp moves from 0
\* to 1 and two seconds remain again
C36_Witness ==
    /\ last_op = "CircuitBreaker.trigger"
    /\ cb.config.cooldown_duration = 2
    /\ args[1].triggered_at = Some(0)
    /\ now = 1
    /\ cb.triggered_at = Some(1)
    /\ CB_check(args[1], now).message = <<"Circuit breaker active. ", "1", "s remaining">>
    /\ CB_check(cb, now).message = <<"Circuit breaker active. ", "2", "s remaining">>

\* C37: in every reachable state of a KillSwitch manually_triggered implies
\* that triggered_at is set, so check() never returns the failure "Manual
\* kill switch triggered": a switch with the manual flag fails through the
\* already-triggered latch.
C37_ManualImpliesLatched ==
    /\ ks.manually_triggered => is_some(ks.triggered_at)
    /\ KS_check(ks).message # <<"Manual kill switch triggered">>
    /\ ks.manually_triggered =>
           /\ ~KS_check(ks).passed
           /\ KS_check(ks).message[1] = "Kill switch already triggered: "

\* check() after manual_trigger("Halt") on a switch with nothing else wrong
C37_Witness ==
    /\ last_op = "KillSwitch.check"
    /\ ks.manually_triggered
    /\ ks.current_balance >= ks.config.balance_floor
    /\ ks.open_positions <= ks.config.max_open_positions
    /\ ks.consecutive_errors < ks.config.max_api_errors
    /\ KS_check(ks).message = <<"Kill switch already triggered: ", "Manual: ", "Halt">>

\* what C38 says of a switch k whose pushed balance was below the floor or
\* whose pushed open positions were above the max when reset() turned it
\* into r: check() on r fails on that condition and check_and_trigger()
\* latches r again with that message
C38_StillFails(k, r, t) ==
    (k.current_balance < k.config.balance_floor
        \/ k.open_positions > k.config.max_open_positions) =>
        /\ ~KS_check(r).passed
        /\ KS_check(r).message[1] =
               (IF k.current_balance < k.config.balance_floor
                THEN "Balance below floor: " ELSE "Max positions exceeded: ")
        /\ KS_is_triggered(KS_check_and_trigger(r, t))
        /\ KS_check_and_trigger(r, t).trigger_reason = Some(KS_check(r).message)

C38_NotErrorsOrManual(r) ==
    KS_check(r).message[1] \notin
        {"Max API errors reached: ", "Manual kill switch triggered",
         "Kill switch already triggered: "}

\* C38 as stated: right after reset() a balance below the floor or open
\* positions above the max still fail check() and the next
\* check_and_trigger() re-latches; the error and manual conditions can no
\* longer be the cause.
C38_ResetDoesNotClearCause ==
    [][ last_op' = "KillSwitch.reset" =>
            (C38_StillFails(ks, ks', now') /\ C38_NotErrorsOrManual(ks')) ]_vars

\* C38 amended: the same, the error condition being excluded only for
\* max_api_errors >= 1; with max_api_errors = 0 and balance and positions
\* within their limits check() right after reset() fails with "Max API
\* errors reached: 0".
C38_ResetAmended ==
    [][ last_op' = "KillSwitch.reset" =>
            /\ C38_StillFails(ks, ks', now')
            /\ KS_check(ks').message[1] \notin
                   {"Manual kill switch triggered", "Kill switch already triggered: "}
            /\ ks.config.max_api_errors >= 1 => C38_NotErrorsOrManual(ks')
            /\ ( /\ ks.config.max_api_errors = 0
                 /\ ks.current_balance >= ks.config.balance_floor
                 /\ ks.open_positions <= ks.config.max_open_positions ) =>
                   KS_check(ks') =
                       RiskCheck_fail(Critical, <<"Max API errors reached: ", "0">>)
      ]_vars

\* reset() with 11 positions still open against a max of 10 and the balance
\* fine: check() fails on the positions
C38_Witness ==
    /\ last_op = "KillSwitch.reset"
    /\ ks.current_balance >= ks.config.balance_floor
    /\ ks.open_positions = 11
    /\ ks.config.max_open_positions = 10
    /\ ks.config.max_api_errors = 5
    /\ KS_check(ks).message = <<"Max positions exceeded: ", "11", " > ", "10">>
    /\ KS_is_triggered(KS_check_and_trigger(ks, now))

\* C39: no operation on an existing RiskGuard (add_check, check_all,
\* all_passed, first_failure), and no operation on anything else, changes the
\* KillSwitch the guard owns; so the kill-switch entry check_all() returns
\* has the same passed, level and message for the whole life of the guard.
C39_GuardKeepsKillSwitch ==
    [][ (is_some(guard) /\ last_op' # "RiskGuard.new") =>
            /\ is_some(guard')
            /\ unwrap(guard').kill_switch = unwrap(guard).kill_switch
            /\ RG_check_all(unwrap(guard'))[1] = RG_check_all(unwrap(guard))[1]
            /\ RG_check_all(unwrap(guard'))[1] = KS_check(unwrap(guard).kill_switch)
      ]_vars

\* check_all() on a guard with two checks whose kill switch fails on the
\* balance and is still not latched
C39_Witness ==
    /\ last_op = "RiskGuard.check_all"
    /\ is_some(guard)
    /\ Len(unwrap(guard).checks) = 2
    /\ is_none(unwrap(guard).kill_switch.triggered_at)
    /\ RG_check_all(unwrap(guard))[1].message[1] = "Balance below floor: "
    /\ ~RG_all_passed(unwrap(guard))

\* the last update reached a registered handler
C40_HandlerInvoked == ret[1] \in {"command", "default", "callback"}

\* C40: in the bot dispatcher no registered handler (command, default or
\* callback) is invoked for an update whose sender is not authorized by the
\* AccessControl whitelist.
C40_OnlyAuthorizedHandled ==
    (last_op = "Bot.run" /\ C40_HandlerInvoked) =>
        /\ is_some(args[2])
        /\ AC_is_authorized(bot.access_control, unwrap(args[2]))

\* the message endpoint alone does keep unauthorized senders out
C40_MessagesGuarded ==
    (last_op = "Bot.run" /\ args[1] = "message" /\ C40_HandlerInvoked) =>
        /\ is_some(args[2])
        /\ AC_is_authorized(bot.access_control, unwrap(args[2]))

\* a callback query from user 789, not on the whitelist, reaches a handler
C40_UnauthorizedCallback ==
    /\ last_op = "Bot.run"
    /\ args[1] = "callback_query"
    /\ args[2] = Some(789)
    /\ bot.access_control.whitelist = Some({123})
    /\ ret[1] = "callback"

============================================================================
